---------------------------- MODULE Spec2Model ----------------------------
(***************************************************************************)
(* Citation style detector: style scoring, extraction, key extraction and  *)
(* author matching, modelled from                                          *)
(*   src/citation_detector/core/detector.py   (CitationStyleDetector)      *)
(*   src/citation_detector/core/extractor.py  (CitationExtractor)          *)
(*   src/citation_detector/core/validator.py  (CitationValidator)          *)
(*                                                                         *)
(* A text is a sequence of lines (joined by "\n" in the program).  The     *)
(* lines are drawn from the fixed set Lines; finditer below tabulates, for *)
(* every regular expression of the pattern tables and every line, the      *)
(* matches the regular expression has in that line.  For texts built from  *)
(* these lines no match spans two lines, so the matches in a text are the  *)
(* matches of its lines, in order.                                         *)
(*                                                                         *)
(* A Python dict is modelled as an ordered dict: a record with the         *)
(* sequence of its keys in insertion order and the function from keys to   *)
(* values.                                                                 *)
(***************************************************************************)
EXTENDS Integers, Sequences, FiniteSets, TLC

VARIABLES
    in_text_patterns,        \* detector.in_text_patterns (ordered dict style -> patterns)
    full_citation_patterns,  \* detector.full_citation_patterns
    loads,                   \* 1 once __init__ has loaded a custom configuration, else 0
    text,                    \* the document under analysis, a sequence of lines
    op,                      \* the operation called last
    args,                    \* its arguments besides the text
    result,                  \* what it returned
    self_patterns,           \* the CitationPatterns catalog in use (extractor.patterns), or None
    before                   \* history: the catalog before that operation, and the pair
                             \* identify_primary_style returned if it was the operation before

vars == <<in_text_patterns, full_citation_patterns, loads, text, op, args, result,
          self_patterns, before>>

catalog == <<in_text_patterns, full_citation_patterns>>

----------------------------------------------------------------------------
(* Bounds *)

MaxTextLen == 2      \* lines in a text
MaxNameLen == 2      \* characters in a name made of NameChars
MaxCitations == 1    \* in-text keys in a call of the matching operations
MaxReferences == 2   \* bibliography entries in a call of the matching operations
MaxAdds == 2         \* successful calls of add_custom_pattern on one catalog
MaxSectionLen == 4   \* lines in a text given to the section splitters
MaxGraphLen == 3     \* lines in a text given to extract_citation_graph
MaxPieces == 2       \* pieces in a candidate given to _is_valid_citation

----------------------------------------------------------------------------
(* Sequences and ordered dicts *)

Range(s) == {s[i] : i \in 1..Len(s)}

SeqsUpTo(S, n) == UNION {[1..k -> S] : k \in 0..n}

Contains(s, x) == \E i \in 1..Len(s) : s[i] = x

RECURSIVE Flatten(_)
Flatten(ss) == IF ss = << >> THEN << >> ELSE Head(ss) \o Flatten(Tail(ss))

RECURSIVE SumSeq(_)
SumSeq(s) == IF s = << >> THEN 0 ELSE Head(s) + SumSeq(Tail(s))

EmptyDict == [keys |-> << >>, val |-> << >>]

DictHas(d, k) == Contains(d.keys, k)

DictGet(d, k, default) == IF DictHas(d, k) THEN d.val[k] ELSE default

\* d[k] = v : a new key goes last, an existing key keeps its place
DictSet(d, k, v) ==
    IF DictHas(d, k)
    THEN [keys |-> d.keys, val |-> [x \in Range(d.keys) |-> IF x = k THEN v ELSE d.val[x]]]
    ELSE [keys |-> Append(d.keys, k),
          val |-> [x \in Range(d.keys) \cup {k} |-> IF x = k THEN v ELSE d.val[x]]]

\* d.values() in iteration order
DictValues(d) == [i \in 1..Len(d.keys) |-> d.val[d.keys[i]]]

----------------------------------------------------------------------------
(* The lines texts are made of, and the pattern tables *)

Lines == {"", "Hello.", "(Smith, 2020)", "(Smith 25)", "(Jones 2019)", "Ibid.", "[1]",
          "References", "Smith, J. A. (2020). Title. Publisher.",
          "Smith, John. Title. City: Publisher, 2020."}

\* "\n".join(lines): a text has at least one line, the empty text is <<"">>
Texts == SeqsUpTo(Lines, MaxTextLen) \ {<< >>}

NoCitations == "No se detectaron citas"

\* detector.py:32-98.  A pattern is named table:style:position.
InitInTextPatterns ==
    [keys |-> <<"APA", "MLA", "CHICAGO_AUTHOR_DATE", "CHICAGO_NOTES",
                "HARVARD", "IEEE", "VANCOUVER", "CSE">>,
     val |-> [s \in {"APA", "MLA", "CHICAGO_AUTHOR_DATE", "CHICAGO_NOTES",
                     "HARVARD", "IEEE", "VANCOUVER", "CSE"} |->
        CASE s = "APA" -> <<"in:APA:1", "in:APA:2", "in:APA:3", "in:APA:4">>
          [] s = "MLA" -> <<"in:MLA:1", "in:MLA:2", "in:MLA:3">>
          [] s = "CHICAGO_AUTHOR_DATE" -> <<"in:CHICAGO_AUTHOR_DATE:1",
                    "in:CHICAGO_AUTHOR_DATE:2", "in:CHICAGO_AUTHOR_DATE:3">>
          [] s = "CHICAGO_NOTES" -> <<"in:CHICAGO_NOTES:1", "in:CHICAGO_NOTES:2">>
          [] s = "HARVARD" -> <<"in:HARVARD:1", "in:HARVARD:2">>
          [] s = "IEEE" -> <<"in:IEEE:1">>
          [] s = "VANCOUVER" -> <<"in:VANCOUVER:1", "in:VANCOUVER:2">>
          [] s = "CSE" -> <<"in:CSE:1", "in:CSE:2">>]]

\* detector.py:101-163
InitFullCitationPatterns ==
    [keys |-> <<"APA", "MLA", "CHICAGO", "HARVARD", "IEEE", "VANCOUVER", "CSE">>,
     val |-> [s \in {"APA", "MLA", "CHICAGO", "HARVARD", "IEEE", "VANCOUVER", "CSE"} |->
        CASE s = "APA" -> <<"full:APA:1", "full:APA:2", "full:APA:3">>
          [] s = "MLA" -> <<"full:MLA:1", "full:MLA:2", "full:MLA:3">>
          [] s = "CHICAGO" -> <<"full:CHICAGO:1", "full:CHICAGO:2", "full:CHICAGO:3">>
          [] s = "HARVARD" -> <<"full:HARVARD:1", "full:HARVARD:2", "full:HARVARD:3">>
          [] s = "IEEE" -> <<"full:IEEE:1", "full:IEEE:2">>
          [] s = "VANCOUVER" -> <<"full:VANCOUVER:1", "full:VANCOUVER:2">>
          [] s = "CSE" -> <<"full:CSE:1", "full:CSE:2">>]]

\* re.finditer(p, l): the matches (group 0) of pattern p in the line l, left to
\* right.  in: and full: are the detector's tables (detector.py:32-163), xin:
\* the extractor's in-text table (extractor.py:87-123), cin: the in-text table
\* of the catalog (patterns.py:46-548); custom:hello is the custom pattern
\* Hello\. of the configurations below.
finditer(p, l) ==
  CASE p = "in:APA:1" /\ l = "(Smith, 2020)" -> <<"(Smith, 2020)">>
    [] p = "in:MLA:1" /\ l = "(Smith 25)" -> <<"(Smith 25)">>
    [] p = "in:MLA:1" /\ l = "(Jones 2019)" -> <<"(Jones 2019)">>
    [] p = "in:CHICAGO_AUTHOR_DATE:1" /\ l = "(Jones 2019)" -> <<"(Jones 2019)">>
    [] p = "in:CHICAGO_NOTES:2" /\ l = "Ibid." -> <<"Ibid.">>
    [] p = "in:HARVARD:1" /\ l = "(Smith, 2020)" -> <<"(Smith, 2020)">>
    [] p = "in:IEEE:1" /\ l = "[1]" -> <<"[1]">>
    [] p = "in:VANCOUVER:1" /\ l = "Smith, J. A. (2020). Title. Publisher." -> <<"(2020)">>
    [] p = "in:CSE:1" /\ l = "(Jones 2019)" -> <<"(Jones 2019)">>
    [] p = "in:CSE:2" /\ l = "(Jones 2019)" -> <<"Jones 2019">>
    [] p = "full:APA:1" /\ l = "Smith, J. A. (2020). Title. Publisher."
         -> <<"Smith, J. A. (2020). Title. Publisher.">>
    [] p = "full:CHICAGO:1" /\ l = "Smith, John. Title. City: Publisher, 2020."
         -> <<"Smith, John. Title. City: Publisher, 2020.">>
    [] p = "xin:APA:1" /\ l = "(Smith, 2020)" -> <<"(Smith, 2020)">>
    [] p = "xin:MLA:1" /\ l = "(Smith 25)" -> <<"(Smith 25)">>
    [] p = "xin:MLA:1" /\ l = "(Jones 2019)" -> <<"(Jones 2019)">>
    [] p = "xin:CHICAGO_AUTHOR_DATE:1" /\ l = "(Jones 2019)" -> <<"(Jones 2019)">>
    [] p = "xin:CHICAGO_NOTES:2" /\ l = "Ibid." -> <<"Ibid.">>
    [] p = "xin:HARVARD:1" /\ l = "(Smith, 2020)" -> <<"(Smith, 2020)">>
    [] p = "xin:IEEE:1" /\ l = "[1]" -> <<"[1]">>
    [] p = "xin:IEEE:2" /\ l = "[1]" -> <<"[1]">>
    [] p = "xin:VANCOUVER:1" /\ l = "Smith, J. A. (2020). Title. Publisher." -> <<"(2020)">>
    [] p = "xin:VANCOUVER:2" /\ l = "[1]" -> <<"[1]">>
    [] p = "xin:CSE:1" /\ l = "(Jones 2019)" -> <<"(Jones 2019)">>
    [] p = "xin:CSE:2" /\ l = "(Jones 2019)" -> <<"Jones 2019">>
    [] p = "xin:CSE:3" /\ l = "[1]" -> <<"[1]">>
    [] p = "cin:APA:1" /\ l = "(Smith, 2020)" -> <<"(Smith, 2020)">>
    [] p = "cin:MLA:1" /\ l = "(Smith 25)" -> <<"(Smith 25)">>
    [] p = "cin:MLA:1" /\ l = "(Jones 2019)" -> <<"(Jones 2019)">>
    [] p = "cin:CHICAGO_AUTHOR_DATE:1" /\ l = "(Jones 2019)" -> <<"(Jones 2019)">>
    [] p = "cin:HARVARD:1" /\ l = "(Smith, 2020)" -> <<"(Smith, 2020)">>
    [] p = "cin:IEEE:1" /\ l = "[1]" -> <<"[1]">>
    [] p = "cin:IEEE:2" /\ l = "[1]" -> <<"[1]">>
    [] p = "cin:VANCOUVER:1" /\ l = "Smith, J. A. (2020). Title. Publisher." -> <<"(2020)">>
    [] p = "cin:VANCOUVER:2" /\ l = "[1]" -> <<"[1]">>
    [] p = "cin:VANCOUVER:3" /\ l = "[1]" -> <<"[1]">>
    [] p = "cin:CSE:1" /\ l = "(Jones 2019)" -> <<"(Jones 2019)">>
    [] p = "cin:CSE:2" /\ l = "(Jones 2019)" -> <<"Jones 2019">>
    [] p = "cin:CSE:4" /\ l = "[1]" -> <<"[1]">>
    [] p = "custom:hello" /\ l = "Hello." -> <<"Hello.">>
    [] OTHER -> << >>

\* the matches of p in a whole text (re.finditer / re.findall with re.MULTILINE)
FindAll(p, txt) == Flatten([i \in 1..Len(txt) |-> finditer(p, txt[i])])

----------------------------------------------------------------------------
(* CitationStyleDetector._load_custom_patterns *)

\* Custom configurations (the parsed JSON object): each part is the list of
\* its (style, patterns) items.
CustomConfigs ==
    { [in_text_patterns |-> << <<"APA", <<"custom:hello">> >> >>,
       full_citation_patterns |-> << >>],
      [in_text_patterns |-> << <<"CHICAGO", <<"custom:hello">> >> >>,
       full_citation_patterns |-> << >>],
      [in_text_patterns |-> << >>,
       full_citation_patterns |-> << <<"CHICAGO_NOTES", <<"custom:hello">> >> >>],
      [in_text_patterns |-> << <<"DOI", <<"custom:hello">> >> >>,
       full_citation_patterns |-> << <<"DOI", <<"custom:hello">> >> >>] }

\* for style, patterns in items: extend the style's list, or create the entry
RECURSIVE MergePatterns(_, _)
MergePatterns(table, items) ==
    IF items = << >> THEN table
    ELSE LET style == Head(items)[1]
             patterns == Head(items)[2]
         IN MergePatterns(
                IF DictHas(table, style)
                THEN DictSet(table, style, table.val[style] \o patterns)
                ELSE DictSet(table, style, patterns),
                Tail(items))

----------------------------------------------------------------------------
(* CitationStyleDetector.detect_citation_styles *)

\* results[category][style] = sum over the style's patterns of len(findall)
CountTable(table, txt) ==
    [keys |-> table.keys,
     val |-> [s \in Range(table.keys) |->
                SumSeq([i \in 1..Len(table.val[s]) |-> Len(FindAll(table.val[s][i], txt))])]]

detect_citation_styles(inp, full, txt) ==
    [in_text |-> CountTable(inp, txt), full_citation |-> CountTable(full, txt)]

----------------------------------------------------------------------------
(* CitationStyleDetector.identify_primary_style *)

\* first loop: in-txt counts, the two Chicago sub-styles under "CHICAGO"
RECURSIVE CombineInText(_, _, _)
CombineInText(styles, counts, combined) ==
    IF styles = << >> THEN combined
    ELSE LET style == Head(styles)
             key == IF style = "CHICAGO_AUTHOR_DATE" \/ style = "CHICAGO_NOTES"
                    THEN "CHICAGO" ELSE style
         IN CombineInText(Tail(styles), counts,
                DictSet(combined, key, DictGet(combined, key, 0) + counts.val[style]))

\* second loop: bibliography counts
RECURSIVE CombineFull(_, _, _)
CombineFull(styles, counts, combined) ==
    IF styles = << >> THEN combined
    ELSE LET style == Head(styles)
         IN CombineFull(Tail(styles), counts,
                DictSet(combined, style, DictGet(combined, style, 0) + counts.val[style]))

\* the CHICAGO_NOTES count left out of the CHICAGO bucket
combined_results_NotesLost(results) ==
    CombineFull(results.full_citation.keys, results.full_citation,
        CombineInText(results.in_text.keys,
            [keys |-> results.in_text.keys,
             val |-> [s \in Range(results.in_text.keys) |->
                        IF s = "CHICAGO_NOTES" THEN 0 ELSE results.in_text.val[s]]],
            EmptyDict))

combined_results(results) ==
    CombineFull(results.full_citation.keys, results.full_citation,
        CombineInText(results.in_text.keys, results.in_text, EmptyDict))

\* max(d, key=d.get): the first key, in iteration order, with the largest value
RECURSIVE PyMaxFrom(_, _, _)
PyMaxFrom(d, i, best) ==
    IF i > Len(d.keys) THEN best
    ELSE PyMaxFrom(d, i + 1, IF d.val[d.keys[i]] > d.val[best] THEN d.keys[i] ELSE best)

\* the last key with the largest value
PyMax_Last(d) ==
    d.keys[CHOOSE i \in 1..Len(d.keys) :
                /\ \A k \in 1..Len(d.keys) : d.val[d.keys[k]] <= d.val[d.keys[i]]
                /\ \A k \in (i + 1)..Len(d.keys) : d.val[d.keys[k]] < d.val[d.keys[i]]]

PyMax(d) == PyMaxFrom(d, 2, d.keys[1])

\* A confidence is the quotient num/den of two integers, den > 0.
Conf(n, d) == [num |-> n, den |-> d]

\* the total taken over the in-text counts only
identify_primary_style_InTextTotal(inp, full, txt) ==
    LET results == detect_citation_styles(inp, full, txt)
        total == SumSeq(DictValues(results.in_text))
        combined == combined_results(results)
        primary_style == PyMax(combined)
    IN  IF total = 0 THEN [style |-> NoCitations, confidence |-> Conf(0, 1)]
        ELSE IF combined.keys = << >> THEN [style |-> NoCitations, confidence |-> Conf(0, 1)]
        ELSE [style |-> primary_style, confidence |-> Conf(combined.val[primary_style], total)]

identify_primary_style(inp, full, txt) ==
    LET results == detect_citation_styles(inp, full, txt)
        total == SumSeq(DictValues(results.in_text)) + SumSeq(DictValues(results.full_citation))
        combined == combined_results(results)
        primary_style == PyMax(combined)
    IN  IF total = 0 THEN [style |-> NoCitations, confidence |-> Conf(0, 1)]
        ELSE IF combined.keys = << >> THEN [style |-> NoCitations, confidence |-> Conf(0, 1)]
        ELSE [style |-> primary_style, confidence |-> Conf(combined.val[primary_style], total)]

----------------------------------------------------------------------------
(* Strings built by the program *)

\* A string the program builds (a citation, a bibliography entry) is the
\* sequence of the pieces it is concatenated from: matches, lines, " " and
\* "\n".  No piece is a prefix of another one, so two strings are equal iff
\* their sequences are, and the order of the strings is the lexicographic
\* order of their sequences under PieceRank (the order of the pieces as
\* Python strings).
PieceRank(a) ==
  CASE a = "\n" -> 1
    [] a = " " -> 2
    [] a = "(2020)" -> 3
    [] a = "(Jones 2019)" -> 4
    [] a = "(Smith 25)" -> 5
    [] a = "(Smith, 2020)" -> 6
    [] a = "Hello." -> 7
    [] a = "Ibid." -> 8
    [] a = "Jones 2019" -> 9
    [] a = "References" -> 10
    [] a = "Smith, J. A. (2020). Title. Publisher." -> 11
    [] a = "Smith, John. Title. City: Publisher, 2020." -> 12
    [] a = "[1]" -> 13

\* len(piece)
PieceLen(a) ==
  CASE a = "Hello." -> 6
    [] a = "(Smith, 2020)" -> 13
    [] a = "(Smith 25)" -> 10
    [] a = "(Jones 2019)" -> 12
    [] a = "Ibid." -> 5
    [] a = "[1]" -> 3
    [] a = "References" -> 10
    [] a = "Smith, J. A. (2020). Title. Publisher." -> 38
    [] a = "Smith, John. Title. City: Publisher, 2020." -> 42
    [] a = "(2020)" -> 6
    [] a = "Jones 2019" -> 10
    [] a = "1. Smith, J. Title, 2020." -> 25
    [] a = "smith, j. (2020). title here." -> 29
    [] a = " " -> 1
    [] a = "\n" -> 1

StrLen(str) == SumSeq([i \in 1..Len(str) |-> PieceLen(str[i])])

\* a < b as Python strings
RECURSIVE StrLess(_, _)
StrLess(a, b) ==
    IF b = << >> THEN FALSE
    ELSE IF a = << >> THEN TRUE
    ELSE IF Head(a) = Head(b) THEN StrLess(Tail(a), Tail(b))
    ELSE PieceRank(Head(a)) < PieceRank(Head(b))

\* sorted(list(set(xs)))
RECURSIVE SortedSet(_)
SortedSet(S) ==
    IF S = {} THEN << >>
    ELSE LET least == CHOOSE x \in S : \A y \in S \ {x} : StrLess(x, y)
         IN <<least>> \o SortedSet(S \ {least})

sorted_set(xs) == SortedSet(Range(xs))

\* str.strip()
RECURSIVE LStrip(_)
LStrip(str) ==
    IF str # << >> /\ Head(str) \in {" ", "\n"} THEN LStrip(Tail(str)) ELSE str

RECURSIVE RStrip(_)
RStrip(str) ==
    IF str # << >> /\ str[Len(str)] \in {" ", "\n"}
    THEN RStrip(SubSeq(str, 1, Len(str) - 1)) ELSE str

Strip(str) == RStrip(LStrip(str))

\* the matches of p in a text, each as a string
Matches(p, txt) == [i \in 1..Len(FindAll(p, txt)) |-> <<FindAll(p, txt)[i]>>]

\* line.strip() == "" for a line of Lines
IsBlankLine(l) == l = ""

----------------------------------------------------------------------------
(* CitationStyleDetector._find_bibliography_section *)

\* the header words of a style (detector.py:499-508)
DetectorHeaders(style) ==
    CASE style = "APA" -> <<"Referencias", "Bibliografía", "Referencias bibliográficas",
                            "References", "Bibliography", "Reference List">>
      [] style = "MLA" -> <<"Obras citadas", "Bibliografía", "Works Cited", "Bibliography">>
      [] style = "CHICAGO" -> <<"Bibliografía", "Notas", "Bibliography", "Notes", "References">>
      [] style = "HARVARD" -> <<"Referencias", "Bibliografía", "References", "Bibliography">>
      [] style = "IEEE" -> <<"Referencias", "References">>
      [] style = "VANCOUVER" -> <<"Referencias", "Bibliografía", "References", "Bibliography">>
      [] style = "CSE" -> <<"Referencias", "Bibliografía", "References", "Bibliography",
                            "Cited References">>
      [] OTHER -> << >>

\* the line l is the header h and nothing else: \s*h\s* , case-insensitive
header_line(h, l) == h = "References" /\ l = "References"

\* re.search(fr'(?i){h}', l)
header_word(h, l) == h = "References" /\ l = "References"

\* re.match(p, l) for a bibliography pattern p
rematch(p, l) ==
    \/ p = "full:APA:1" /\ l = "Smith, J. A. (2020). Title. Publisher."
    \/ p = "full:CHICAGO:1" /\ l = "Smith, John. Title. City: Publisher, 2020."
    \/ p = "custom:hello" /\ l = "Hello."

\* the first line from k on that is not blank (Len + 1 if there is none)
RECURSIVE SkipBlank(_, _)
SkipBlank(txt, k) ==
    IF k <= Len(txt) /\ IsBlankLine(txt[k]) THEN SkipBlank(txt, k + 1) ELSE k

\* (?i)(?:^|\n)\s*h\s*(?:\n|$) matches with j lines before the start of the
\* match: at the start of the text (j = 0) or at the "\n" that ends line j,
\* then blank lines, then the header line
HeaderMatchAt(h, txt, j) ==
    LET k == SkipBlank(txt, j + 1) IN k <= Len(txt) /\ header_line(h, txt[k])

HeaderFound(h, txt) == \E j \in 0..(Len(txt) - 1) : HeaderMatchAt(h, txt, j)

\* text[match.start():] for the leftmost match
FromHeader(h, txt) ==
    LET j == CHOOSE j \in 0..(Len(txt) - 1) :
                /\ HeaderMatchAt(h, txt, j)
                /\ \A i \in 0..(j - 1) : ~HeaderMatchAt(h, txt, i)
    IN IF j = 0 THEN txt ELSE <<"">> \o SubSeq(txt, j + 1, Len(txt))

\* walk back from the reference line to the line after a blank line, or to a
\* line with a header word
RECURSIVE WalkBack(_, _, _)
WalkBack(txt, style_headers, start_line) ==
    IF start_line > 1 /\ ~IsBlankLine(txt[start_line - 1])
    THEN IF \E i \in 1..Len(style_headers) : header_word(style_headers[i], txt[start_line - 1])
         THEN start_line - 1
         ELSE WalkBack(txt, style_headers, start_line - 1)
    ELSE start_line

find_bibliography_section(full, txt, style) ==
    LET style_headers == DetectorHeaders(style)
        found == {i \in 1..Len(style_headers) : HeaderFound(style_headers[i], txt)}
        patterns == DictGet(full, style, << >>)
        \* the lines after the first that look like a reference
        refs == {i \in 2..Len(txt) : \E k \in 1..Len(patterns) : rematch(patterns[k], txt[i])}
    IN  IF found # {}
        THEN FromHeader(style_headers[CHOOSE i \in found : \A k \in found : i <= k], txt)
        ELSE IF refs # {}
        THEN LET i == CHOOSE i \in refs : \A k \in refs : k <= i
             IN SubSeq(txt, WalkBack(txt, style_headers, i), Len(txt))
        ELSE <<"">>

----------------------------------------------------------------------------
(* CitationStyleDetector.extract_citations *)

\* a line that starts a reference: surname and comma, [n], or n.
starts_reference(l) ==
    l \in {"Smith, J. A. (2020). Title. Publisher.",
           "Smith, John. Title. City: Publisher, 2020.", "[1]"}

\* the line by line grouping used when no pattern matches the section
RECURSIVE GroupLines(_, _, _)
GroupLines(lines, current_ref, refs) ==
    IF lines = << >>
    THEN IF current_ref # << >> THEN Append(refs, current_ref) ELSE refs
    ELSE LET line == Head(lines)
         IN IF IsBlankLine(line)
            THEN GroupLines(Tail(lines), << >>,
                            IF current_ref # << >> THEN Append(refs, current_ref) ELSE refs)
            ELSE IF starts_reference(line)
            THEN GroupLines(Tail(lines), <<line>>,
                            IF current_ref # << >> THEN Append(refs, current_ref) ELSE refs)
            ELSE GroupLines(Tail(lines), current_ref \o <<" ", line>>, refs)

\* the matches of every pattern of the list, pattern after pattern
AllMatches(patterns, txt) == Flatten([i \in 1..Len(patterns) |-> Matches(patterns[i], txt)])

extract_citations_unsorted(inp, full, txt) ==
    LET primary_style == identify_primary_style(inp, full, txt).style
        patterns == IF primary_style = "CHICAGO"
                    THEN DictGet(inp, "CHICAGO_AUTHOR_DATE", << >>)
                         \o DictGet(inp, "CHICAGO_NOTES", << >>)
                    ELSE inp.val[primary_style]
        en_texto == IF DictHas(inp, primary_style) THEN AllMatches(patterns, txt) ELSE << >>
        bibliography_section == find_bibliography_section(full, txt, primary_style)
        matched == AllMatches(full.val[primary_style], bibliography_section)
        bibliograficas ==
            IF DictHas(full, primary_style) /\ bibliography_section # <<"">>
            THEN IF matched # << >> THEN matched
                 ELSE GroupLines(bibliography_section, << >>, << >>)
            ELSE << >>
    IN  IF primary_style = NoCitations
        THEN [en_texto |-> << >>, bibliograficas |-> << >>]
        ELSE [en_texto |-> en_texto, bibliograficas |-> bibliograficas]

extract_citations(inp, full, txt) ==
    LET citations == extract_citations_unsorted(inp, full, txt)
    IN [en_texto |-> sorted_set(citations.en_texto),
        bibliograficas |-> sorted_set(citations.bibliograficas)]

----------------------------------------------------------------------------
(* CitationExtractor: tables *)

\* extractor.py:35-84
bibliography_headers ==
    [keys |-> <<"APA", "MLA", "CHICAGO", "HARVARD", "IEEE", "VANCOUVER", "CSE">>,
     val |-> [s \in {"APA", "MLA", "CHICAGO", "HARVARD", "IEEE", "VANCOUVER", "CSE"} |->
        CASE s = "APA" -> <<"(?i)^Referencias$", "(?i)^Referencias bibliográficas$",
                            "(?i)^Bibliografía$", "(?i)^References$",
                            "(?i)^Reference List$", "(?i)^Bibliography$">>
          [] s = "MLA" -> <<"(?i)^Obras citadas$", "(?i)^Works Cited$",
                            "(?i)^Bibliografía$", "(?i)^Bibliography$">>
          [] s = "CHICAGO" -> <<"(?i)^Bibliografía$", "(?i)^Bibliography$", "(?i)^Referencias$",
                                "(?i)^References$", "(?i)^Notas$", "(?i)^Notes$">>
          [] s = "HARVARD" -> <<"(?i)^Referencias$", "(?i)^Referencias bibliográficas$",
                                "(?i)^Bibliografía$", "(?i)^Reference List$", "(?i)^References$">>
          [] s = "IEEE" -> <<"(?i)^Referencias$", "(?i)^References$">>
          [] s = "VANCOUVER" -> <<"(?i)^Referencias$", "(?i)^References$",
                                  "(?i)^Bibliografía$", "(?i)^Bibliography$">>
          [] s = "CSE" -> <<"(?i)^Referencias$", "(?i)^References$", "(?i)^Cited References$",
                            "(?i)^Referencias citadas$", "(?i)^Bibliografía$",
                            "(?i)^Bibliography$">>]]

\* extractor.py:87-123
extractor_in_text_patterns ==
    [keys |-> <<"APA", "MLA", "CHICAGO_AUTHOR_DATE", "CHICAGO_NOTES",
                "HARVARD", "IEEE", "VANCOUVER", "CSE">>,
     val |-> [s \in {"APA", "MLA", "CHICAGO_AUTHOR_DATE", "CHICAGO_NOTES",
                     "HARVARD", "IEEE", "VANCOUVER", "CSE"} |->
        CASE s = "APA" -> <<"xin:APA:1", "xin:APA:2">>
          [] s = "MLA" -> <<"xin:MLA:1", "xin:MLA:2">>
          [] s = "CHICAGO_AUTHOR_DATE" -> <<"xin:CHICAGO_AUTHOR_DATE:1",
                                            "xin:CHICAGO_AUTHOR_DATE:2">>
          [] s = "CHICAGO_NOTES" -> <<"xin:CHICAGO_NOTES:1", "xin:CHICAGO_NOTES:2">>
          [] s = "HARVARD" -> <<"xin:HARVARD:1", "xin:HARVARD:2">>
          [] s = "IEEE" -> <<"xin:IEEE:1", "xin:IEEE:2">>
          [] s = "VANCOUVER" -> <<"xin:VANCOUVER:1", "xin:VANCOUVER:2", "xin:VANCOUVER:3">>
          [] s = "CSE" -> <<"xin:CSE:1", "xin:CSE:2", "xin:CSE:3", "xin:CSE:4">>]]

\* the style arguments the extractor is called with; "UNKNOWN" is in no table
Styles == {"APA", "MLA", "CHICAGO", "HARVARD", "IEEE", "VANCOUVER", "CSE", "UNKNOWN"}

\* len(header), the header being the regular expression string
HeaderLen(header) == IF header = "(?i)^References$" THEN 16 ELSE 0

\* the header (with \s*$ appended, re.MULTILINE) matches at the line l
header_matches(header, l) == header = "(?i)^References$" /\ l = "References"

\* len(line)
LineLen(l) == IF l = "" THEN 0 ELSE PieceLen(l)

\* the regular expressions applied to single lines and entries, by what they
\* say about the pieces of Lines
HasYear == {"(Smith, 2020)", "(Jones 2019)", "Smith, J. A. (2020). Title. Publisher.",
            "Smith, John. Title. City: Publisher, 2020.", "(2020)", "Jones 2019",
            "1. Smith, J. Title, 2020.", "smith, j. (2020). title here."}               \* \d{4}
HasDigit == HasYear \cup {"(Smith 25)", "[1]"}                                          \* \d+
StartsParen == {"(Smith, 2020)", "(Smith 25)", "(Jones 2019)", "(2020)"}                \* startswith('(')
EndsParen == {"(Smith, 2020)", "(Smith 25)", "(Jones 2019)", "(2020)"}                  \* endswith(')')
HasOpen == StartsParen \cup {"Smith, J. A. (2020). Title. Publisher.",
                              "smith, j. (2020). title here."}                          \* '(' in
HasClose == EndsParen \cup {"Smith, J. A. (2020). Title. Publisher.",
                             "smith, j. (2020). title here."}                           \* ')' in
EndsPunct == {"Hello.", "Ibid.", "Smith, J. A. (2020). Title. Publisher.",
              "Smith, John. Title. City: Publisher, 2020.",
              "1. Smith, J. Title, 2020.", "smith, j. (2020). title here."}             \* [.!?]$
SurnameStart == {"Smith, J. A. (2020). Title. Publisher.",
                 "Smith, John. Title. City: Publisher, 2020.",
                 "smith, j. (2020). title here."}                                       \* ^[A-Za-zÀ-ÿ\-]+,
BracketStart == {"[1]"}                                                                 \* ^\[\d+\]
HasNumberDot == {"Smith, John. Title. City: Publisher, 2020.",
                 "1. Smith, J. Title, 2020."}                                           \* \d+\.
HeadingLike == {"References"}                                           \* \s*[A-Z][A-Za-zÀ-ÿ\s]+\s*
ApaEntry == {"Smith, J. A. (2020). Title. Publisher."}
MlaEntry == {"Smith, J. A. (2020). Title. Publisher.",
             "Smith, John. Title. City: Publisher, 2020."}
IeeeEntry == {}

----------------------------------------------------------------------------
(* CitationExtractor._is_valid_citation *)

is_valid_citation(citation, style, citation_type) ==
    LET first == citation[1]
        last == citation[Len(citation)]
        has(S) == \E i \in 1..Len(citation) : citation[i] \in S
    IN  IF StrLen(citation) < 3 THEN FALSE
        ELSE IF citation_type = "in_text"
        THEN /\ style \in {"APA", "CHICAGO_AUTHOR_DATE", "CHICAGO"} =>
                    /\ has(HasYear)
                    /\ ~(first \in StartsParen /\ last \notin EndsParen)
             /\ style = "MLA" => ~(has(HasOpen) /\ has(HasClose) /\ ~has(HasDigit))
             /\ style \in {"IEEE", "VANCOUVER"} => has(HasDigit)
             /\ StrLen(citation) <= 100
        ELSE IF citation_type = "bibliography"
        THEN /\ last \in EndsPunct
             /\ style # "MLA" => has(HasYear)
             /\ style \in {"IEEE", "VANCOUVER"} => (first \in BracketStart \/ has(HasNumberDot))
             /\ style \in {"APA", "MLA", "CHICAGO", "HARVARD"} => first \in SurnameStart
             /\ StrLen(citation) >= 20
             /\ StrLen(citation) <= 1000
        ELSE TRUE

----------------------------------------------------------------------------
(* CitationExtractor._extract_main_text, _extract_bibliography_section *)

\* for style, headers in bibliography_headers.items(): for header in headers
AllHeaders == Flatten([i \in 1..Len(bibliography_headers.keys) |->
                            bibliography_headers.val[bibliography_headers.keys[i]]])

HeaderHits(headers, txt) ==
    {i \in 1..Len(headers) : \E k \in 1..Len(txt) : header_matches(headers[i], txt[k])}

\* the first header of the list with a match
FirstHeader(headers, txt) ==
    headers[CHOOSE i \in HeaderHits(headers, txt) : \A k \in HeaderHits(headers, txt) : i <= k]

\* the line of its first match
HeaderLineNo(header, txt) ==
    CHOOSE k \in 1..Len(txt) :
        /\ header_matches(header, txt[k])
        /\ \A i \in 1..(k - 1) : ~header_matches(header, txt[i])

\* "\n" followed by an entry of the given shape: the lines after the first
EntryLines(shape, txt) == {i \in 2..Len(txt) : txt[i] \in shape}

\* From the match, back to the start of the line before it, then back to a
\* "\n\n": the number of lines before the position reached (0: the start of
\* the text).
BlankBack(txt, e) ==
    LET blanks == {b \in 2..(e - 1) : IsBlankLine(txt[b]) /\ ~(b = 2 /\ IsBlankLine(txt[1]))}
    IN IF blanks = {} THEN 0 ELSE CHOOSE b \in blanks : \A c \in blanks : c <= b

FirstOf(S) == CHOOSE i \in S : \A k \in S : i <= k

extract_main_text(txt) ==
    IF HeaderHits(AllHeaders, txt) # {}
    THEN SubSeq(txt, 1, HeaderLineNo(FirstHeader(AllHeaders, txt), txt) - 1) \o <<"">>
    ELSE IF EntryLines(ApaEntry, txt) # {}
    THEN SubSeq(txt, 1, BlankBack(txt, FirstOf(EntryLines(ApaEntry, txt)))) \o <<"">>
    ELSE txt

\* the position in the section of the "\n" that ends its line j
NewlinePos(section, j) == SumSeq([i \in 1..j |-> LineLen(section[i]) + 1]) - 1

\* \n\s*[A-Z][A-Za-zÀ-ÿ\s]+\s*\n searched from position len(header) on: the
\* "\n" that ends line j, blank lines, a heading that is not the last line
NextSectionAt(section, header, j) ==
    /\ NewlinePos(section, j) >= HeaderLen(header)
    /\ LET k == SkipBlank(section, j + 1)
       IN k <= Len(section) - 1 /\ section[k] \in HeadingLike

EntryShape(style) ==
    CASE style = "APA" -> ApaEntry
      [] style = "MLA" -> MlaEntry
      [] style = "IEEE" -> IeeeEntry
      [] OTHER -> {}

\* the section found, "" (the text <<"">>) if there is none
extract_bibliography_section(txt, style) ==
    LET own == DictGet(bibliography_headers, style, << >>)
        headers == IF own = << >> THEN AllHeaders ELSE own
    IN  IF HeaderHits(headers, txt) # {}
        THEN LET header == FirstHeader(headers, txt)
                 bibliography == SubSeq(txt, HeaderLineNo(header, txt), Len(txt))
                 cuts == {j \in 1..(Len(bibliography) - 1) :
                            NextSectionAt(bibliography, header, j)}
             IN IF cuts # {} THEN SubSeq(bibliography, 1, FirstOf(cuts)) ELSE bibliography
        ELSE IF EntryLines(EntryShape(style), txt) # {}
        THEN SubSeq(txt, BlankBack(txt, FirstOf(EntryLines(EntryShape(style), txt))) + 1, Len(txt))
        ELSE <<"">>

----------------------------------------------------------------------------
(* CitationExtractor._split_bibliography_entries *)

\* re.sub(f"(?i)^{header}\\s*\n", "", bib_section) for the style's headers:
\* without re.MULTILINE the header is removed only from a section that is the
\* header line and a final "\n"
remove_header(section, style) ==
    LET headers == DictGet(bibliography_headers, style, << >>)
    IN IF /\ Len(section) = 2
          /\ IsBlankLine(section[2])
          /\ \E i \in 1..Len(headers) : header_matches(headers[i], section[1])
       THEN <<"">>
       ELSE section

\* the line starts a new entry
starts_entry(line, style) ==
    CASE style \in {"APA", "MLA", "CHICAGO", "HARVARD"} -> line \in SurnameStart
      [] style \in {"IEEE", "VANCOUVER"} -> line \in BracketStart
      [] style = "CSE" -> line \in BracketStart

\* the loop over the lines; an entry is appended stripped
RECURSIVE SplitLines(_, _, _, _)
SplitLines(lines, style, current_entry, entries) ==
    LET flushed == IF Strip(current_entry) # << >>
                   THEN Append(entries, Strip(current_entry)) ELSE entries
    IN  IF lines = << >> THEN flushed
        ELSE LET line == Head(lines)
             IN IF IsBlankLine(line)
                THEN SplitLines(Tail(lines), style,
                                IF Strip(current_entry) # << >> THEN << >> ELSE current_entry,
                                flushed)
                ELSE IF starts_entry(line, style)
                THEN SplitLines(Tail(lines), style, <<line>>, flushed)
                ELSE SplitLines(Tail(lines), style, current_entry \o <<" ", line>>, entries)

\* re.split(r'\n\s*\n', bib_section): the blocks between blank lines, each
\* the lines of the block joined by "\n"
RECURSIVE SplitBlocks(_, _, _)
SplitBlocks(lines, block, entries) ==
    LET flushed == IF block # << >> THEN Append(entries, block) ELSE entries
    IN  IF lines = << >> THEN flushed
        ELSE IF IsBlankLine(Head(lines))
        THEN SplitBlocks(Tail(lines), << >>, flushed)
        ELSE SplitBlocks(Tail(lines),
                         IF block = << >> THEN <<Head(lines)>> ELSE block \o <<"\n", Head(lines)>>,
                         entries)

split_bibliography_entries(bib_section, style) ==
    IF style \in {"APA", "MLA", "CHICAGO", "HARVARD", "IEEE", "VANCOUVER", "CSE"}
    THEN SplitLines(remove_header(bib_section, style), style, << >>, << >>)
    ELSE SplitBlocks(bib_section, << >>, << >>)

----------------------------------------------------------------------------
(* CitationExtractor.extract_in_text_citations, extract_bibliography_citations *)

\* the loop with the set seen: every string once, at its first position
RECURSIVE Unique(_, _)
Unique(citations, unique_citations) ==
    IF citations = << >> THEN unique_citations
    ELSE Unique(Tail(citations),
                IF Contains(unique_citations, Head(citations)) THEN unique_citations
                ELSE Append(unique_citations, Head(citations)))

\* the patterns used for a style: the local tables, every pattern if the
\* style has none
in_text_patterns_for(style) ==
    LET patterns == IF style = "CHICAGO"
                    THEN DictGet(extractor_in_text_patterns, "CHICAGO_AUTHOR_DATE", << >>)
                         \o DictGet(extractor_in_text_patterns, "CHICAGO_NOTES", << >>)
                    ELSE DictGet(extractor_in_text_patterns, style, << >>)
    IN IF patterns = << >> THEN Flatten(DictValues(extractor_in_text_patterns)) ELSE patterns

\* the valid matches, pattern after pattern, before the duplicates are removed
collected_in_text(txt, style) ==
    LET valid(citation) == is_valid_citation(citation, style, "in_text")
    IN SelectSeq(AllMatches(in_text_patterns_for(style), extract_main_text(txt)), valid)

\* the distinct matches in ascending order
extract_in_text_citations_Sorted(txt, style) == sorted_set(collected_in_text(txt, style))

extract_in_text_citations(txt, style) == Unique(collected_in_text(txt, style), << >>)

extract_bibliography_citations(txt, style) ==
    LET bib_section == extract_bibliography_section(txt, style)
        entries == split_bibliography_entries(bib_section, style)
        stripped == [i \in 1..Len(entries) |-> Strip(entries[i])]
        valid(entry) == entry # << >> /\ is_valid_citation(entry, style, "bibliography")
    IN IF bib_section = <<"">> THEN << >> ELSE SelectSeq(stripped, valid)

----------------------------------------------------------------------------
(* CitationExtractor._detect_citation_style *)

\* style_counts[style] += 5 for every header of the style found in the text
RECURSIVE CountHeaders(_, _, _)
CountHeaders(styles, txt, style_counts) ==
    IF styles = << >> THEN style_counts
    ELSE LET style == Head(styles)
             headers == bibliography_headers.val[style]
             found == {i \in 1..Len(headers) : HeaderHits(<<headers[i]>>, txt) # {}}
         IN CountHeaders(Tail(styles), txt,
                IF found = {} THEN style_counts
                ELSE DictSet(style_counts, style,
                             DictGet(style_counts, style, 0) + 5 * Cardinality(found)))

\* style_counts[style] += len(findall) for every pattern of the style
RECURSIVE CountInText(_, _, _)
CountInText(styles, txt, style_counts) ==
    IF styles = << >> THEN style_counts
    ELSE LET style == Head(styles)
             patterns == extractor_in_text_patterns.val[style]
             matches == SumSeq([i \in 1..Len(patterns) |-> Len(FindAll(patterns[i], txt))])
         IN CountInText(Tail(styles), txt,
                DictSet(style_counts, style, DictGet(style_counts, style, 0) + matches))

\* dict.pop(k, 0): the dict without the key
DictPop(d, k) ==
    LET keep(x) == x # k
    IN [keys |-> SelectSeq(d.keys, keep), val |-> [x \in Range(d.keys) \ {k} |-> d.val[x]]]

\* the counts after the two Chicago sub-styles are merged
style_counts_of(txt) ==
    LET counted == CountInText(extractor_in_text_patterns.keys, txt,
                        CountHeaders(bibliography_headers.keys, txt, EmptyDict))
        author_date == DictGet(counted, "CHICAGO_AUTHOR_DATE", 0)
        notes == DictGet(counted, "CHICAGO_NOTES", 0)
    IN IF DictHas(counted, "CHICAGO_AUTHOR_DATE") \/ DictHas(counted, "CHICAGO_NOTES")
       THEN DictSet(DictPop(DictPop(counted, "CHICAGO_AUTHOR_DATE"), "CHICAGO_NOTES"),
                    "CHICAGO", author_date + notes)
       ELSE counted

detect_citation_style(txt) ==
    LET style_counts == style_counts_of(txt)
        max_style == PyMax(style_counts)
    IN IF style_counts.keys # << >> /\ style_counts.val[max_style] > 0
       THEN max_style ELSE "APA"

----------------------------------------------------------------------------
(* _extract_citation_keys of CitationStyleDetector and of CitationValidator *)

\* The groups of the matches of a key pattern in a line: <<author, year>>,
\* or <<author>> for the MLA patterns, which have no group for the number.
\* key: are the detector's patterns (detector.py:411-443), vkey: the
\* validator's (validator.py:421-453).
groups(p, l) ==
  CASE p = "key:APA:1" /\ l = "(Smith, 2020)" -> << <<"Smith", "2020">> >>
    [] p = "key:APA:1" /\ l = "(smith, 2020)" -> << <<"smith", "2020">> >>
    [] p = "key:MLA:1" /\ l = "(Smith 25)" -> << <<"Smith">> >>
    [] p = "key:MLA:1" /\ l = "(Jones 2019)" -> << <<"Jones">> >>
    [] p = "key:CHICAGO:1" /\ l = "(Jones 2019)" -> << <<"Jones", "2019">> >>
    [] p = "vkey:APA:1" /\ l = "(Smith, 2020)" -> << <<"Smith", "2020">> >>
    [] p = "vkey:APA:1" /\ l = "(smith, 2020)" -> << <<"smith", "2020">> >>
    [] p = "vkey:MLA:1" /\ l = "(Smith 25)" -> << <<"Smith">> >>
    [] p = "vkey:MLA:1" /\ l = "(Jones 2019)" -> << <<"Jones">> >>
    [] p = "vkey:CHICAGO:1" /\ l = "(Jones 2019)" -> << <<"Jones", "2019">> >>
    [] OTHER -> << >>

\* the groups of every match of p in the text, in order
AllGroups(p, txt) == Flatten([i \in 1..Len(txt) |-> groups(p, txt[i])])

\* the keys one branch of the detector's method appends: (author, year), or
\* (author, "") where with_year is false
BranchKeys(patterns, with_year, txt) ==
    LET found == Flatten([i \in 1..Len(patterns) |-> AllGroups(patterns[i], txt)])
    IN [i \in 1..Len(found) |-> IF with_year THEN <<found[i][1], found[i][2]>>
                                             ELSE <<found[i][1], "">>]

\* detector.py:406-453 gives the list keys before set() is applied; here
\* MLA is handled by the Chicago branch, which keeps the year
detector_citation_keys_MlaAsChicago(txt, style) ==
    CASE style = "APA" \/ style = "HARVARD" -> BranchKeys(<<"key:APA:1", "key:APA:2">>, TRUE, txt)
      [] style = "MLA" \/ style = "CHICAGO" -> BranchKeys(<<"key:CHICAGO:1">>, TRUE, txt)
      [] OTHER -> << >>

detector_citation_keys(txt, style) ==
    CASE style = "APA" \/ style = "HARVARD" -> BranchKeys(<<"key:APA:1", "key:APA:2">>, TRUE, txt)
      [] style = "MLA" -> BranchKeys(<<"key:MLA:1", "key:MLA:2">>, FALSE, txt)
      [] style = "CHICAGO" -> BranchKeys(<<"key:CHICAGO:1">>, TRUE, txt)
      [] OTHER -> << >>

\* list(set(keys)): the distinct keys, in any order
Orders(S) == {order \in [1..Cardinality(S) -> S] : Range(order) = S}

\* validator.py:417-463, one citation: the key of the first pattern of the
\* style's branch that matches, none if no pattern does
RECURSIVE FirstKey(_, _, _)
FirstKey(patterns, citation, style) ==
    IF patterns = << >> THEN << >>
    ELSE LET found == groups(Head(patterns), citation)
         IN IF found # << >>
            THEN IF style = "MLA" THEN << <<found[1][1], "">> >>
                 ELSE << <<found[1][1], found[1][2]>> >>
            ELSE FirstKey(Tail(patterns), citation, style)

validator_key_patterns(style) ==
    CASE style = "APA" \/ style = "HARVARD" -> <<"vkey:APA:1", "vkey:APA:2", "vkey:APA:3">>
      [] style = "MLA" -> <<"vkey:MLA:1", "vkey:MLA:2">>
      [] style = "CHICAGO" -> <<"vkey:CHICAGO:1">>
      [] OTHER -> << >>

validator_citation_keys(citations, style) ==
    Flatten([i \in 1..Len(citations) |->
                FirstKey(validator_key_patterns(style), citations[i], style)])

----------------------------------------------------------------------------
(* CitationValidator._normalize_author_name, _match_author_names *)

\* A name is the sequence of its characters.
NameChars == {"a", "B", " ", ".", "&"}

Smith == <<"S", "m", "i", "t", "h">>
EtAl == <<"e", "t", " ", "a", "l">>

\* the names the matcher is called with besides the short ones
CuratedNames ==
    { Smith,
      Smith \o <<" ">> \o EtAl \o <<".">>,
      <<"J", "o", "h", "n", " ">> \o Smith,
      Smith \o <<" ", "&", " ", "B">>,
      <<"s", "m", "i", "t", "h", ",", " ", "J", ".">>,
      EtAl,
      <<"B", " ">> \o EtAl,
      <<"a", " ", "B">>,
      <<"a", " ">> \o EtAl \o <<" ", "B">>,
      <<"B", " ", "a">> }

Names == SeqsUpTo(NameChars, MaxNameLen) \cup CuratedNames

\* str.lower(), on the characters names are made of
Lower(c) ==
    CASE c = "B" -> "b"
      [] c = "S" -> "s"
      [] c = "J" -> "j"
      [] c = "A" -> "a"
      [] OTHER -> c

\* re.sub(r'\s+', ' ', s): the string has no other whitespace than " "
RECURSIVE CollapseSpaces(_)
CollapseSpaces(str) ==
    IF Len(str) < 2 THEN str
    ELSE IF str[1] = " " /\ str[2] = " " THEN CollapseSpaces(Tail(str))
    ELSE <<str[1]>> \o CollapseSpaces(Tail(str))

normalize_author_name(author) ==
    LET lowered == [i \in 1..Len(author) |-> Lower(author[i])]
        kept(c) == c \notin {".", ",", ";", ":"}
        unpunctuated == SelectSeq(lowered, kept)
        replaced == Flatten([i \in 1..Len(unpunctuated) |->
                        IF unpunctuated[i] = "&" THEN <<"a", "n", "d">>
                        ELSE <<unpunctuated[i]>>])
    IN Strip(CollapseSpaces(replaced))

\* a in b
IsSubstring(a, b) ==
    \E i \in 0..(Len(b) - Len(a)) : SubSeq(b, i + 1, i + Len(a)) = a

\* s.split(sep)[0]: s up to the first occurrence of sep
SplitFirst(str, sep) ==
    IF IsSubstring(sep, str)
    THEN LET i == CHOOSE i \in 0..(Len(str) - Len(sep)) :
                    /\ SubSeq(str, i + 1, i + Len(sep)) = sep
                    /\ \A k \in 0..(i - 1) : SubSeq(str, k + 1, k + Len(sep)) # sep
         IN SubSeq(str, 1, i)
    ELSE str

\* s.split()[0] if " " in s else s
MainAuthor(norm) == IF Contains(norm, " ") THEN SplitFirst(norm, <<" ">>) ELSE norm

\* the "et al" test made for the first name only
match_author_names_OneWay(author1, author2) ==
    LET auth1_norm == normalize_author_name(author1)
        auth2_norm == normalize_author_name(author2)
    IN  \/ auth1_norm = auth2_norm
        \/ /\ IsSubstring(EtAl, auth1_norm)
           /\ IsSubstring(Strip(SplitFirst(auth1_norm, EtAl)), auth2_norm)
        \/ IsSubstring(auth1_norm, auth2_norm)
        \/ IsSubstring(auth2_norm, auth1_norm)
        \/ MainAuthor(auth1_norm) = MainAuthor(auth2_norm)

match_author_names(author1, author2) ==
    LET auth1_norm == normalize_author_name(author1)
        auth2_norm == normalize_author_name(author2)
    IN  \/ auth1_norm = auth2_norm
        \/ /\ IsSubstring(EtAl, auth1_norm)
           /\ IsSubstring(Strip(SplitFirst(auth1_norm, EtAl)), auth2_norm)
        \/ /\ IsSubstring(EtAl, auth2_norm)
           /\ IsSubstring(Strip(SplitFirst(auth2_norm, EtAl)), auth1_norm)
        \/ IsSubstring(auth1_norm, auth2_norm)
        \/ IsSubstring(auth2_norm, auth1_norm)
        \/ MainAuthor(auth1_norm) = MainAuthor(auth2_norm)

----------------------------------------------------------------------------
(* Matching in-text keys with bibliography entries *)

Jones == <<"J", "o", "n", "e", "s">>

\* s.lower()
LowerStr(str) == [i \in 1..Len(str) |-> Lower(str[i])]

\* s.replace(sub, '')
RECURSIVE RemoveAll(_, _)
RemoveAll(str, sub) ==
    IF Len(str) < Len(sub) THEN str
    ELSE IF SubSeq(str, 1, Len(sub)) = sub
         THEN RemoveAll(SubSeq(str, Len(sub) + 1, Len(str)), sub)
         ELSE <<str[1]>> \o RemoveAll(Tail(str), sub)

\* the in-text keys (author, year) the matching is called with
CitationKeys ==
    { <<Smith, "2020">>,
      <<Smith \o <<" ">> \o EtAl \o <<".">>, "2021">>,
      <<Smith, "">>,
      << << >>, "2020">> }

\* the bibliography entries (author, year, title) the matching is called with:
\* the groups of a matched entry for the detector (a missing group being ""),
\* the key tuple for the validator
ReferenceKeys ==
    { <<Smith \o <<",", " ", "J", ".">>, "2020", "Title">>,
      <<Smith, "2021", "Title">>,
      <<Jones \o <<",", " ", "B", ".">>, "2021", "Other Title">>,
      <<Smith, "", "Title">>,
      << << >>, "2020", "Title">> }

MatchStyles == {"APA", "CHICAGO", "MLA", "IEEE"}

\* ref_author.split(',')[0].strip() if ref_author
ref_surname(ref_author) ==
    IF ref_author # << >> THEN Strip(SplitFirst(ref_author, <<",">>)) ELSE ref_author

\* author.lower().replace('et al.', '').strip()
author_norm_of(author) == Strip(RemoveAll(LowerStr(author), EtAl \o <<".">>))

\* author_norm in ref_author_norm or ref_author_norm in author_norm
surnames_match(author, ref_author) ==
    LET author_norm == Strip(RemoveAll(LowerStr(author), EtAl \o <<".">>))
        ref_author_norm == Strip(LowerStr(ref_author))
    IN  IsSubstring(author_norm, ref_author_norm) \/ IsSubstring(ref_author_norm, author_norm)

\* the test the two loops of the detector make on a key and an entry
key_matches_ref(author, year, ref, style) ==
    LET ref_author == ref_surname(ref[1])
        ref_year == ref[2]
    IN  IF style \in {"APA", "HARVARD", "CHICAGO"}
        THEN /\ author # << >> /\ ref_author # << >> /\ year # "" /\ ref_year # ""
             /\ surnames_match(author, ref_author)
             /\ year = ref_year
        ELSE IF style = "MLA"
        THEN /\ author # << >> /\ ref_author # << >>
             /\ surnames_match(author, ref_author)
        ELSE FALSE

\* f"{author} ({year})" if year else author
citation_text(author, year) ==
    IF year # "" THEN author \o <<" ", "(", year, ")">> ELSE author

find_citations_without_references(citations, references, style) ==
    LET found(c) == \E i \in DOMAIN references :
                        key_matches_ref(c[1], c[2], references[i], style)
        missing(c) == ~found(c) /\ Strip(c[1]) # << >>
        kept == SelectSeq(citations, missing)
    IN  [i \in DOMAIN kept |-> citation_text(kept[i][1], kept[i][2])]

\* an entry counts as cited whenever its year equals the key's year
find_references_without_citations_YearOnly(citations, references, style) ==
    LET cited(ref) == \E i \in DOMAIN citations : citations[i][2] = ref[2]
        unused(ref) == ~cited(ref) /\ Strip(ref_surname(ref[1])) # << >>
    IN  SelectSeq(references, unused)

find_references_without_citations(citations, references, style) ==
    LET cited(ref) == \E i \in DOMAIN citations :
                        key_matches_ref(citations[i][1], citations[i][2], ref, style)
        unused(ref) == ~cited(ref) /\ Strip(ref_surname(ref[1])) # << >>
    IN  SelectSeq(references, unused)

find_matching_reference(author, year, bib_keys, style) ==
    IF year = "" /\ style = "MLA"
    THEN \E i \in DOMAIN bib_keys : match_author_names(author, bib_keys[i][1])
    ELSE \E i \in DOMAIN bib_keys :
            match_author_names(author, bib_keys[i][1]) /\ year = bib_keys[i][2]

find_matching_citation(author, year, in_text_keys, style) ==
    \E i \in DOMAIN in_text_keys :
        IF style = "MLA"
        THEN match_author_names(author, in_text_keys[i][1])
        ELSE match_author_names(author, in_text_keys[i][1]) /\ year = in_text_keys[i][2]

----------------------------------------------------------------------------
(* CitationStyleDetector._extract_bibliography_entries and the cross check
   of validate_citations *)

\* the characters of an author group of a key
Chars(name) ==
    CASE name = "Smith" -> Smith
      [] name = "Jones" -> Jones
      [] name = "smith" -> LowerStr(Smith)
      [] OTHER -> << >>

KeyChars(keys) == [i \in DOMAIN keys |-> <<Chars(keys[i][1]), keys[i][2]>>]

\* match.groupdict() for every match of the bibliography pattern p in l: the
\* groups author, year and title, a group the pattern does not have being ""
groupdicts(p, l) ==
  CASE p = "full:APA:1" /\ l = "Smith, J. A. (2020). Title. Publisher."
         -> << <<Smith \o <<",", " ", "J", ".", " ", "A", ".">>, "2020", "Title">> >>
    [] p = "full:CHICAGO:1" /\ l = "Smith, John. Title. City: Publisher, 2020."
         -> << <<Smith \o <<",", " ", "J", "o", "h", "n">>, "2020", "Title">> >>
    [] p = "custom:hello" /\ l = "Hello." -> << << << >>, "", "">> >>
    [] OTHER -> << >>

extract_bibliography_entries(full, txt, style) ==
    LET bibliography_section == find_bibliography_section(full, txt, style)
        patterns == DictGet(full, style, << >>)
    IN  IF bibliography_section = <<"">> THEN << >>
        ELSE Flatten([k \in 1..Len(patterns) |->
                Flatten([i \in 1..Len(bibliography_section) |->
                            groupdicts(patterns[k], bibliography_section[i])])])

\* validate_citations, detector.py:360-365: the keys come out of list(set())
\* in any order
cited_not_referenced(full, txt, style) ==
    { find_citations_without_references(KeyChars(in_text_citations),
            extract_bibliography_entries(full, txt, style), style) :
        in_text_citations \in Orders(Range(detector_citation_keys(txt, style))) }

\* validate_citations, detector.py:360-372
referenced_not_cited(full, txt, style) ==
    find_references_without_citations(KeyChars(detector_citation_keys(txt, style)),
        extract_bibliography_entries(full, txt, style), style)

----------------------------------------------------------------------------
(* CitationValidator.validate_citation_consistency *)

\* the in-text citations and the bibliography entries the validator is given
InTextStrings == {"(Smith, 2020)", "(smith, 2020)", "(Smith 25)", "(Jones 2019)"}

BibliographyStrings ==
    { "Smith, J. A. (2020). Title. Publisher.",
      "Smith, J. (2020). Title. Publisher.",
      "Jones, B. (2021). Other Title. Publisher.",
      "Smith, John. Title. City: Publisher, 2020.",
      "[1] J. Smith, \"Title,\" Journal, vol. 1, 2020.",
      "1. Smith AB. Title. Journal. 2020;1:1-2." }

\* validator.py:482-529, one entry: the key (author, year, title) the regular
\* expression of the style finds in it, none if it does not match
bibliography_key(citation, style) ==
  CASE style = "APA" /\ citation = "Smith, J. (2020). Title. Publisher."
         -> << <<"Smith", "2020", "Title">> >>
    [] style = "APA" /\ citation = "Jones, B. (2021). Other Title. Publisher."
         -> << <<"Jones", "2021", "Other Title">> >>
    [] style \in {"MLA", "CHICAGO"} /\ citation = "Smith, John. Title. City: Publisher, 2020."
         -> << <<"Smith", "2020", "Title">> >>
    [] style = "IEEE" /\ citation = "[1] J. Smith, \"Title,\" Journal, vol. 1, 2020."
         -> << <<"Smith", "2020", "Title">> >>
    [] style = "VANCOUVER" /\ citation = "1. Smith AB. Title. Journal. 2020;1:1-2."
         -> << <<"Smith", "2020", "Title">> >>
    [] OTHER -> << >>

extract_bibliography_keys(citations, style) ==
    Flatten([i \in 1..Len(citations) |-> bibliography_key(citations[i], style)])

\* key[:2] of every key, the author as its characters
BibKeyChars(keys) == [i \in DOMAIN keys |-> <<Chars(keys[i][1]), keys[i][2]>>]

\* the author kept in author_variants for the base of the i-th key: the
\* author of the first key with that base
FirstVariant(in_text_keys, i) ==
    LET base(k) == normalize_author_name(Chars(in_text_keys[k][1]))
        j == CHOOSE j \in 1..i : base(j) = base(i) /\ \A k \in 1..(j - 1) : base(k) # base(i)
    IN  in_text_keys[j][1]

validate_citation_consistency(en_texto, bibliograficas, style) ==
    LET in_text_keys == validator_citation_keys(en_texto, style)
        bib_keys == extract_bibliography_keys(bibliograficas, style)
        unmatched(key) == ~find_matching_reference(Chars(key[1]), key[2],
                                                   BibKeyChars(bib_keys), style)
        missing == SelectSeq(in_text_keys, unmatched)
        uncited(key) == ~find_matching_citation(Chars(key[1]), key[2],
                                                KeyChars(in_text_keys), style)
        unused == SelectSeq(bib_keys, uncited)
        variant(i) == in_text_keys[i][1] # FirstVariant(in_text_keys, i)
        inconsistent == SelectSeq([i \in DOMAIN in_text_keys |-> i], variant)
    IN  [i \in DOMAIN missing |->
            [rule_id |-> "missing_bibliography", citation |-> missing[i]]]
        \o [i \in DOMAIN unused |->
            [rule_id |-> "uncited_references", citation |-> unused[i]]]
        \o [i \in DOMAIN inconsistent |->
            [rule_id |-> "inconsistent_author_names",
             citation |-> <<in_text_keys[inconsistent[i]][1],
                            FirstVariant(in_text_keys, inconsistent[i])>>]]

----------------------------------------------------------------------------
(* The outcome of a call *)

\* What a call of an extractor operation gives.  re.error is raised by
\* re.search(f"(?i)^{header}\\s*$", ...), the header starting with (?i)
\* itself, where the interpreter rejects a global flag that is not at the
\* start of the expression; where it accepts it the call returns.
Returned(value) == [raised |-> "", value |-> value]
Raised == [raised |-> "re.error", value |-> << >>]

----------------------------------------------------------------------------
(* CitationPatterns: the catalog, get_pattern, add_custom_pattern *)

\* no catalog: CitationExtractor(patterns=None)
None == [none |-> TRUE]

\* patterns.py:46-548, the in_text_patterns every _load_<style>_patterns fills: a pattern is
\* named table:style:position
DefaultInTextPatterns ==
    [keys |-> <<"APA", "MLA", "CHICAGO_AUTHOR_DATE", "CHICAGO_NOTES", "HARVARD", "IEEE", "VANCOUVER", "CSE">>,
     val |-> [s \in {"APA", "MLA", "CHICAGO_AUTHOR_DATE", "CHICAGO_NOTES", "HARVARD", "IEEE", "VANCOUVER", "CSE"} |->
        CASE s = "APA" -> <<"cin:APA:1", "cin:APA:2", "cin:APA:3", "cin:APA:4", "cin:APA:5", "cin:APA:6", "cin:APA:7", "cin:APA:8", "cin:APA:9">>
          [] s = "MLA" -> <<"cin:MLA:1", "cin:MLA:2", "cin:MLA:3", "cin:MLA:4", "cin:MLA:5", "cin:MLA:6", "cin:MLA:7", "cin:MLA:8">>
          [] s = "CHICAGO_AUTHOR_DATE" -> <<"cin:CHICAGO_AUTHOR_DATE:1", "cin:CHICAGO_AUTHOR_DATE:2", "cin:CHICAGO_AUTHOR_DATE:3", "cin:CHICAGO_AUTHOR_DATE:4">>
          [] s = "CHICAGO_NOTES" -> <<"cin:CHICAGO_NOTES:1", "cin:CHICAGO_NOTES:2", "cin:CHICAGO_NOTES:3">>
          [] s = "HARVARD" -> <<"cin:HARVARD:1", "cin:HARVARD:2", "cin:HARVARD:3", "cin:HARVARD:4", "cin:HARVARD:5">>
          [] s = "IEEE" -> <<"cin:IEEE:1", "cin:IEEE:2", "cin:IEEE:3">>
          [] s = "VANCOUVER" -> <<"cin:VANCOUVER:1", "cin:VANCOUVER:2", "cin:VANCOUVER:3", "cin:VANCOUVER:4">>
          [] s = "CSE" -> <<"cin:CSE:1", "cin:CSE:2", "cin:CSE:3", "cin:CSE:4", "cin:CSE:5">>]]

\* patterns.py:46-548, the bibliography_patterns
DefaultBibliographyPatterns ==
    [keys |-> <<"APA", "MLA", "CHICAGO", "CHICAGO_NOTES", "HARVARD", "IEEE", "VANCOUVER", "CSE">>,
     val |-> [s \in {"APA", "MLA", "CHICAGO", "CHICAGO_NOTES", "HARVARD", "IEEE", "VANCOUVER", "CSE"} |->
        CASE s = "APA" -> <<"cbib:APA:1", "cbib:APA:2", "cbib:APA:3", "cbib:APA:4">>
          [] s = "MLA" -> <<"cbib:MLA:1", "cbib:MLA:2", "cbib:MLA:3", "cbib:MLA:4">>
          [] s = "CHICAGO" -> <<"cbib:CHICAGO:1", "cbib:CHICAGO:2", "cbib:CHICAGO:3", "cbib:CHICAGO:4">>
          [] s = "CHICAGO_NOTES" -> <<"cbib:CHICAGO_NOTES:1", "cbib:CHICAGO_NOTES:2", "cbib:CHICAGO_NOTES:3", "cbib:CHICAGO_NOTES:4">>
          [] s = "HARVARD" -> <<"cbib:HARVARD:1", "cbib:HARVARD:2", "cbib:HARVARD:3">>
          [] s = "IEEE" -> <<"cbib:IEEE:1", "cbib:IEEE:2", "cbib:IEEE:3">>
          [] s = "VANCOUVER" -> <<"cbib:VANCOUVER:1", "cbib:VANCOUVER:2", "cbib:VANCOUVER:3", "cbib:VANCOUVER:4">>
          [] s = "CSE" -> <<"cbib:CSE:1", "cbib:CSE:2", "cbib:CSE:3", "cbib:CSE:4">>]]

\* patterns.py:550-603
DefaultBibliographyHeaders ==
    [keys |-> <<"APA", "MLA", "CHICAGO", "HARVARD", "IEEE", "VANCOUVER", "CSE">>,
     val |-> [s \in {"APA", "MLA", "CHICAGO", "HARVARD", "IEEE", "VANCOUVER", "CSE"} |->
        CASE s = "APA" -> <<"chdr:APA:1", "chdr:APA:2", "chdr:APA:3", "chdr:APA:4", "chdr:APA:5", "chdr:APA:6">>
          [] s = "MLA" -> <<"chdr:MLA:1", "chdr:MLA:2", "chdr:MLA:3", "chdr:MLA:4">>
          [] s = "CHICAGO" -> <<"chdr:CHICAGO:1", "chdr:CHICAGO:2", "chdr:CHICAGO:3", "chdr:CHICAGO:4", "chdr:CHICAGO:5", "chdr:CHICAGO:6">>
          [] s = "HARVARD" -> <<"chdr:HARVARD:1", "chdr:HARVARD:2", "chdr:HARVARD:3", "chdr:HARVARD:4", "chdr:HARVARD:5">>
          [] s = "IEEE" -> <<"chdr:IEEE:1", "chdr:IEEE:2">>
          [] s = "VANCOUVER" -> <<"chdr:VANCOUVER:1", "chdr:VANCOUVER:2", "chdr:VANCOUVER:3", "chdr:VANCOUVER:4">>
          [] s = "CSE" -> <<"chdr:CSE:1", "chdr:CSE:2", "chdr:CSE:3", "chdr:CSE:4", "chdr:CSE:5", "chdr:CSE:6">>]]

\* re.compile(p, re.MULTILINE) for a source the compiler accepts
compile(p) == <<"re.compile", p>>

\* _compile_patterns, one table
CompileTable(table) ==
    [keys |-> table.keys,
     val |-> [s \in Range(table.keys) |->
                [i \in 1..Len(table.val[s]) |-> compile(table.val[s][i])]]]

\* CitationPatterns(): the tables add_custom_pattern and get_pattern work on
CitationPatterns ==
    [in_text_patterns |-> DefaultInTextPatterns,
     bibliography_patterns |-> DefaultBibliographyPatterns,
     bibliography_headers |-> DefaultBibliographyHeaders,
     compiled_in_text |-> CompileTable(DefaultInTextPatterns),
     compiled_bibliography |-> CompileTable(DefaultBibliographyPatterns),
     compiled_headers |-> CompileTable(DefaultBibliographyHeaders)]

\* The pattern sources add_custom_pattern is called with: r'Hello\.'
\* compiles, r'(' is not a regular expression (re.error), and r'a{4294967296}'
\* has a repetition count the compiler refuses with OverflowError.
PatternSources == {"custom:hello", "custom:(", "custom:a{4294967296}"}

compile_outcome(p) ==
    CASE p = "custom:(" -> "re.error"
      [] p = "custom:a{4294967296}" -> "OverflowError"
      [] OTHER -> "ok"

PatternTypes == {"in_text", "bibliography", "headers", "footnotes"}

\* a style of every table, and a style of none
CatalogStyles == {"APA", "DOI"}

\* index=None; an index that is not None and not in range gives the list too
NoIndex == -1

get_pattern(self, style, pattern_type, index) ==
    LET patterns == CASE pattern_type = "in_text" -> DictGet(self.compiled_in_text, style, << >>)
                      [] pattern_type = "bibliography" ->
                            DictGet(self.compiled_bibliography, style, << >>)
                      [] pattern_type = "headers" -> DictGet(self.compiled_headers, style, << >>)
                      [] OTHER -> << >>
    IN  IF pattern_type \in {"in_text", "bibliography", "headers"}
           /\ index # NoIndex /\ 0 <= index /\ index < Len(patterns)
        THEN patterns[index + 1]
        ELSE patterns

\* the style's list of a raw table and of its compiled table after the
\* append: both lists are created when the style is not in the raw table
AppendRaw(raw, style, pattern) ==
    DictSet(raw, style, Append(IF DictHas(raw, style) THEN raw.val[style] ELSE << >>, pattern))

\* the compiled pattern put in front of the list
AppendCompiled_Front(raw, compiled, style, pattern) ==
    DictSet(compiled, style,
            <<compile(pattern)>> \o (IF DictHas(raw, style) THEN compiled.val[style] ELSE << >>))

AppendCompiled(raw, compiled, style, pattern) ==
    DictSet(compiled, style,
            Append(IF DictHas(raw, style) THEN compiled.val[style] ELSE << >>, compile(pattern)))

\* the catalog with a header registered in the raw table only
registered_RawHeaderOnly(self, style, pattern_type, pattern) ==
    CASE pattern_type = "in_text" ->
            [self EXCEPT
                !.in_text_patterns = AppendRaw(self.in_text_patterns, style, pattern),
                !.compiled_in_text = AppendCompiled(self.in_text_patterns,
                                        self.compiled_in_text, style, pattern)]
      [] pattern_type = "bibliography" ->
            [self EXCEPT
                !.bibliography_patterns = AppendRaw(self.bibliography_patterns, style, pattern),
                !.compiled_bibliography = AppendCompiled(self.bibliography_patterns,
                                        self.compiled_bibliography, style, pattern)]
      [] pattern_type = "headers" ->
            [self EXCEPT
                !.bibliography_headers = AppendRaw(self.bibliography_headers, style, pattern)]

\* the catalog once the compiled pattern is registered under a known type
registered(self, style, pattern_type, pattern) ==
    CASE pattern_type = "in_text" ->
            [self EXCEPT
                !.in_text_patterns = AppendRaw(self.in_text_patterns, style, pattern),
                !.compiled_in_text = AppendCompiled(self.in_text_patterns,
                                        self.compiled_in_text, style, pattern)]
      [] pattern_type = "bibliography" ->
            [self EXCEPT
                !.bibliography_patterns = AppendRaw(self.bibliography_patterns, style, pattern),
                !.compiled_bibliography = AppendCompiled(self.bibliography_patterns,
                                        self.compiled_bibliography, style, pattern)]
      [] pattern_type = "headers" ->
            [self EXCEPT
                !.bibliography_headers = AppendRaw(self.bibliography_headers, style, pattern),
                !.compiled_headers = AppendCompiled(self.bibliography_headers,
                                        self.compiled_headers, style, pattern)]

RaisedOverflow == [raised |-> "OverflowError", value |-> << >>]

\* the source is appended to the raw in-text list before it is compiled
add_custom_pattern_AppendFirst(self, style, pattern_type, pattern) ==
    CASE compile_outcome(pattern) = "re.error" ->
            [self |-> [self EXCEPT
                        !.in_text_patterns = AppendRaw(self.in_text_patterns, style, pattern)],
             outcome |-> Returned(FALSE)]
      [] compile_outcome(pattern) = "OverflowError" -> [self |-> self, outcome |-> RaisedOverflow]
      [] OTHER ->
            IF pattern_type \in {"in_text", "bibliography", "headers"}
            THEN [self |-> registered(self, style, pattern_type, pattern),
                  outcome |-> Returned(TRUE)]
            ELSE [self |-> self, outcome |-> Returned(FALSE)]

\* the catalog after the call, and what the call gives
add_custom_pattern(self, style, pattern_type, pattern) ==
    CASE compile_outcome(pattern) = "re.error" -> [self |-> self, outcome |-> Returned(FALSE)]
      [] compile_outcome(pattern) = "OverflowError" -> [self |-> self, outcome |-> RaisedOverflow]
      [] OTHER ->
            IF pattern_type \in {"in_text", "bibliography", "headers"}
            THEN [self |-> registered(self, style, pattern_type, pattern),
                  outcome |-> Returned(TRUE)]
            ELSE [self |-> self, outcome |-> Returned(FALSE)]

----------------------------------------------------------------------------
(* CitationStyleDetector._load_custom_patterns on any configuration file *)

\* A value of the parsed file under 'in_text_patterns' or
\* 'full_citation_patterns': a JSON object with its (style, patterns) items,
\* or a value that is not an object (a JSON array), on which .items() raises
\* AttributeError.  A key that is absent is the object without items.
JsonObject(items) == [object |-> TRUE, items |-> items]
JsonArray == [object |-> FALSE, items |-> << >>]

\* The configuration files: parses is whether open() and json.load() succeed.
\* custom:( is the source "(", which is not a regular expression.
JsonConfig(parses, in_text, full) ==
    [parses |-> parses, in_text_patterns |-> in_text, full_citation_patterns |-> full]

ConfigFiles ==
    { JsonConfig(FALSE, JsonObject(<< >>), JsonObject(<< >>)),
      JsonConfig(TRUE, JsonObject(<< <<"APA", <<"custom:hello">> >> >>), JsonObject(<< >>)),
      JsonConfig(TRUE, JsonObject(<< <<"DOI", <<"custom:hello">> >> >>),
                       JsonObject(<< <<"APA", <<"custom:hello">> >> >>)),
      JsonConfig(TRUE, JsonObject(<< <<"APA", <<"custom:hello">> >> >>), JsonArray),
      JsonConfig(TRUE, JsonArray, JsonObject(<< <<"APA", <<"custom:hello">> >> >>)),
      JsonConfig(TRUE, JsonObject(<< <<"APA", <<"custom:(">> >> >>), JsonObject(<< >>)),
      JsonConfig(TRUE, JsonObject(<< <<"APA", <<"custom:hello">> >> >>),
                       JsonObject(<< <<"DOI", <<"custom:(">> >> >>)) }

\* the two tables after the call and what it logs: the in-text part is merged
\* before the bibliography part is looked at, and any exception ends the call
\* with an error logged
load_custom_patterns(inp, full, cfg) ==
    IF ~cfg.parses \/ ~cfg.in_text_patterns.object
    THEN [in_text_patterns |-> inp, full_citation_patterns |-> full, logged |-> "error"]
    ELSE LET merged == MergePatterns(inp, cfg.in_text_patterns.items)
         IN  IF ~cfg.full_citation_patterns.object
             THEN [in_text_patterns |-> merged, full_citation_patterns |-> full,
                   logged |-> "error"]
             ELSE [in_text_patterns |-> merged,
                   full_citation_patterns |->
                        MergePatterns(full, cfg.full_citation_patterns.items),
                   logged |-> "info"]

\* the sources of a table, in the order the scoring loops meet them
TableSources(table) == Flatten(DictValues(table))

\* detect_citation_styles where a table may hold a source that is not a
\* regular expression: re.findall compiles the source and raises re.error
detect_citation_styles_call(inp, full, txt) ==
    IF \E p \in Range(TableSources(inp)) \cup Range(TableSources(full)) :
            compile_outcome(p) = "re.error"
    THEN Raised
    ELSE Returned(detect_citation_styles(inp, full, txt))

----------------------------------------------------------------------------
(* CitationExtractor.extract_in_text_citations with self.patterns *)

\* the catalog with one pattern registered for a style of its own
CatalogWithCustomStyle ==
    add_custom_pattern(CitationPatterns, "DOI", "in_text", "custom:hello").self

\* CitationExtractor(patterns=...): no catalog, the default catalog, the
\* catalog with a custom style
InjectedCatalogs == {None, CitationPatterns, CatalogWithCustomStyle}

\* the sources of compiled patterns
Sources(compiled) == [i \in 1..Len(compiled) |-> compiled[i][2]]

\* the patterns what follows applies, by their sources: with a catalog
\* get_pattern(style, 'in_text'), without one the local table with the two
\* Chicago lists joined; and every pattern of the local table when that list
\* is empty
selected_in_text_patterns(self, style) ==
    LET patterns == IF self # None
                    THEN Sources(get_pattern(self, style, "in_text", NoIndex))
                    ELSE IF style = "CHICAGO"
                    THEN DictGet(extractor_in_text_patterns, "CHICAGO_AUTHOR_DATE", << >>)
                         \o DictGet(extractor_in_text_patterns, "CHICAGO_NOTES", << >>)
                    ELSE DictGet(extractor_in_text_patterns, style, << >>)
    IN IF patterns = << >> THEN Flatten(DictValues(extractor_in_text_patterns)) ELSE patterns

\* the citations the patterns of a list give: the valid matches in the main
\* text, every string once
citations_of(patterns, txt, style) ==
    LET valid(citation) == is_valid_citation(citation, style, "in_text")
    IN Unique(SelectSeq(AllMatches(patterns, extract_main_text(txt)), valid), << >>)

\* extract_in_text_citations of an extractor with self.patterns = self
catalog_extract_in_text_citations(self, txt, style) ==
    citations_of(selected_in_text_patterns(self, style), txt, style)

----------------------------------------------------------------------------
(* CitationStyleDetector.validate_citations, analyze_text *)

\* confidence < 0.7 and confidence > 0.7 for the quotient num / den
Below07(c) == 10 * c.num < 7 * c.den
Above07(c) == 10 * c.num > 7 * c.den

\* f"{confidence:.2f}": the quotient in hundredths, a tie going to the even
\* one
TwoDigits(n) == IF n < 10 THEN <<"0", ToString(n)>> ELSE <<ToString(n)>>

Format2f(c) ==
    LET q == (100 * c.num) \div c.den
        r == (100 * c.num) % c.den
        h == IF 2 * r < c.den THEN q
             ELSE IF 2 * r > c.den THEN q + 1
             ELSE IF q % 2 = 0 THEN q ELSE q + 1
    IN  <<ToString(h \div 100), ".">> \o TwoDigits(h % 100)

\* the messages
MultipleStylesMessage(primary_style, confidence) ==
    <<"Se detectaron múltiples estilos de citación. El estilo predominante es ", primary_style,
      " con una confianza de ">> \o Format2f(confidence)
        \o <<". Se recomienda unificar al estilo ", primary_style, ".">>

MissingEntryMessage(citation) ==
    <<"La cita '">> \o citation
        \o <<"' aparece en el texto pero no tiene una entrada correspondiente en la bibliografía.">>

UncitedEntriesMessage(n) ==
    <<"Se encontraron ", ToString(n),
      " entradas bibliográficas que no están citadas en el texto.">>

LineMessage(line_num, message) == <<"Línea ", ToString(line_num), ": ">> \o message

UnifyMessage(primary_style) == <<"Unificar todas las citas al estilo ", primary_style, ".">>

MissingReferencesMessage(n) ==
    <<"Añadir entradas bibliográficas para las ", ToString(n),
      " citas que no tienen referencia.">>

StyleRecommendation(primary_style) ==
    CASE primary_style = "APA" ->
            << <<"En APA 7ª edición, las citas en texto con tres o más autores deben abreviarse usando 'et al.'">> >>
      [] primary_style = "MLA" ->
            << <<"En MLA, incluir solo apellido y página en las citas parentéticas. El año solo va en la bibliografía.">> >>
      [] primary_style = "CHICAGO" ->
            << <<"Chicago permite dos sistemas: notas al pie (más común en humanidades) y autor-fecha (más común en ciencias).">> >>
      [] OTHER -> << >>

\* the expressions of the format checks, by the lines of Lines they find
AuthorSpaceYear == {"(Jones 2019)"}       \* \([A-Za-z]+ \d{4}\)
AuthorCommaYear == {"(Smith, 2020)"}      \* \([A-Za-z]+, \d{4}\)
AuthorCommaNumber == {"(Smith, 2020)"}    \* \([A-Za-z]+, \d+\)
YearCommaNumber == {}                     \* \d{4}, \d+
AmpersandAuthors == {}                    \* [A-Za-z]+ & [A-Za-z]+ \d+
NumberedNotes == {}                       \* ^(\d+)\.\s

\* int(group(1)) of a numbered note
note_number(line) == 0

\* the format messages of line i
format_issues(txt, i, primary_style) ==
    LET line == txt[i]
        when(cond, message) == IF cond THEN <<LineMessage(i, message)>> ELSE << >>
        footnote_num == note_number(line)
        expected_num == 1 + Cardinality({k \in 1..(i - 1) : txt[k] \in NumberedNotes})
    IN  CASE primary_style = "APA" ->
                when(line \in AuthorSpaceYear /\ line \notin AuthorCommaYear,
                     <<"La cita parece ser APA pero falta una coma entre el autor y el año.">>)
                \o when(line \in YearCommaNumber,
                     <<"La cita parece ser APA pero falta indicador de página (p. o pp.).">>)
          [] primary_style = "MLA" ->
                when(line \in AuthorCommaNumber,
                     <<"La cita parece ser MLA pero tiene una coma entre el autor y el número de página.">>)
                \o when(line \in AmpersandAuthors,
                     <<"En MLA debe usarse 'and' en lugar de '&' para conectar autores.">>)
          [] primary_style = "CHICAGO" ->
                when(line \in NumberedNotes /\ footnote_num # expected_num,
                     <<"Número de nota al pie incorrecto. Se esperaba ", ToString(expected_num),
                       ", se encontró ", ToString(footnote_num), ".">>)
          [] primary_style = "HARVARD" ->
                when(line \in YearCommaNumber,
                     <<"En Harvard se usa dos puntos (año: página) en lugar de coma.">>)
          [] OTHER -> << >>

\* validate_citations, the cited keys without an entry being given in the
\* order the set of keys came out
validate_citations_MissingOnly(inp, full, txt, missing) ==
    LET primary == identify_primary_style(inp, full, txt)
        primary_style == primary.style
        uncited == referenced_not_cited(full, txt, primary_style)
    IN  IF primary_style = NoCitations
        THEN [inconsistencias_estilo |-> << >>,
              formato_incorrecto |-> << >>,
              recomendaciones |-> << <<"No se detectaron citas en el texto.">> >>]
        ELSE [inconsistencias_estilo |->
                    [i \in DOMAIN missing |-> MissingEntryMessage(missing[i])],
              formato_incorrecto |->
                    Flatten([i \in 1..Len(txt) |-> format_issues(txt, i, primary_style)]),
              recomendaciones |->
                    (IF uncited # << >> THEN <<UncitedEntriesMessage(Len(uncited))>> ELSE << >>)
                    \o StyleRecommendation(primary_style)]

validate_citations(inp, full, txt, missing) ==
    LET primary == identify_primary_style(inp, full, txt)
        primary_style == primary.style
        uncited == referenced_not_cited(full, txt, primary_style)
    IN  IF primary_style = NoCitations
        THEN [inconsistencias_estilo |-> << >>,
              formato_incorrecto |-> << >>,
              recomendaciones |-> << <<"No se detectaron citas en el texto.">> >>]
        ELSE [inconsistencias_estilo |->
                    (IF Below07(primary.confidence)
                     THEN <<MultipleStylesMessage(primary_style, primary.confidence)>>
                     ELSE << >>)
                    \o [i \in DOMAIN missing |-> MissingEntryMessage(missing[i])],
              formato_incorrecto |->
                    Flatten([i \in 1..Len(txt) |-> format_issues(txt, i, primary_style)]),
              recomendaciones |->
                    (IF uncited # << >> THEN <<UncitedEntriesMessage(Len(uncited))>> ELSE << >>)
                    \o StyleRecommendation(primary_style)]

\* the recommendations analyze_text makes before those of the validation
analyze_recommendations(inp, full, txt) ==
    LET style_counts == detect_citation_styles(inp, full, txt)
        primary == identify_primary_style(inp, full, txt)
        primary_style == primary.style
        confidence == primary.confidence
        total_in_text == SumSeq(DictValues(style_counts.in_text))
        total_full == SumSeq(DictValues(style_counts.full_citation))
        when(cond, message) == IF cond THEN <<message>> ELSE << >>
        missing == CHOOSE m \in cited_not_referenced(full, txt, primary_style) : TRUE
    IN  IF primary_style = NoCitations THEN << >>
        ELSE when(Below07(confidence), UnifyMessage(primary_style))
             \o when(total_in_text > 0 /\ total_full = 0,
                     <<"Incluir una bibliografía completa al final del documento.">>)
             \o when(total_in_text = 0 /\ total_full > 0,
                     <<"Incluir citas en el texto que correspondan a las referencias bibliográficas.">>)
             \o when(primary_style = "APA" /\ Above07(confidence),
                     <<"Para múltiples autores en APA, use '&' en citas parentéticas y 'y' en citas narrativas.">>)
             \o when(primary_style = "MLA" /\ Above07(confidence),
                     <<"En MLA, incluya el número de página sin 'p.' o 'pp.' en las citas parentéticas.">>)
             \o when(primary_style = "CHICAGO" /\ Above07(confidence)
                        /\ DictGet(style_counts.in_text, "CHICAGO_NOTES", 0) > 0
                        /\ DictGet(style_counts.in_text, "CHICAGO_AUTHOR_DATE", 0) > 0,
                     <<"Elija un solo sistema Chicago: notas al pie o autor-fecha, no mezcle ambos.">>)
             \o when(total_in_text > 0 /\ total_full > 0 /\ missing # << >>,
                     MissingReferencesMessage(Len(missing)))

analyze_text(inp, full, txt, missing) ==
    LET style_counts == detect_citation_styles(inp, full, txt)
        primary == identify_primary_style(inp, full, txt)
        validation == validate_citations(inp, full, txt, missing)
    IN  [estilo_predominante |-> primary.style,
         nivel_confianza |-> primary.confidence,
         conteo_citas |-> [en_texto |-> SumSeq(DictValues(style_counts.in_text)),
                           bibliograficas |-> SumSeq(DictValues(style_counts.full_citation)),
                           desglose |-> style_counts],
         problemas |-> [inconsistencias_estilo |-> validation.inconsistencias_estilo,
                        formato_incorrecto |-> validation.formato_incorrecto],
         recomendaciones |->
            Unique(analyze_recommendations(inp, full, txt) \o validation.recomendaciones, << >>)]

----------------------------------------------------------------------------
(* CitationExtractor.extract_citation_metadata, _is_matching_citation,
   extract_citation_graph *)

\* re.search(p, citation).groupdict() for the expressions of
\* extract_citation_metadata, as <<(author, year)>>, << >> without a match;
\* a group the expression does not have is ""
metadata_search(p, citation) ==
  CASE p = "meta:APA:1" /\ citation = <<"(Smith, 2020)">> -> << <<Smith, "2020">> >>
    [] p = "meta:HARVARD:1" /\ citation = <<"(Smith, 2020)">> -> << <<Smith, "2020">> >>
    [] p = "meta:MLA:1" /\ citation = <<"(Smith 25)">> -> << <<Smith, "">> >>
    [] p = "meta:MLA:1" /\ citation = <<"(Jones 2019)">>
         -> << << <<"J", "o", "n", "e", "s">>, "">> >>
    [] p = "meta:CHICAGO:1" /\ citation = <<"(Jones 2019)">>
         -> << << <<"J", "o", "n", "e", "s">>, "2019">> >>
    [] p = "bibmeta:APA:1" /\ citation = <<"Smith, J. A. (2020). Title. Publisher.">>
         -> << <<Smith \o <<",", " ", "J", ".", " ", "A", ".">>, "2020">> >>
    [] OTHER -> << >>

\* the author and the year of the metadata, each empty if it has none
NoMetadata == [author |-> << >>, year |-> ""]

FirstSearch(patterns, citation) ==
    LET found == Flatten([i \in 1..Len(patterns) |-> metadata_search(patterns[i], citation)])
    IN IF found = << >> THEN NoMetadata
       ELSE [author |-> found[1][1], year |-> found[1][2]]

extract_citation_metadata(citation, style, citation_type) ==
    IF citation_type = "in_text"
    THEN CASE style = "APA" -> FirstSearch(<<"meta:APA:1", "meta:APA:2">>, citation)
           [] style = "MLA" -> FirstSearch(<<"meta:MLA:1", "meta:MLA:2">>, citation)
           [] style \in {"CHICAGO", "CHICAGO_AUTHOR_DATE"}
                -> FirstSearch(<<"meta:CHICAGO:1", "meta:CHICAGO:2">>, citation)
           [] style = "HARVARD" -> FirstSearch(<<"meta:HARVARD:1", "meta:HARVARD:2">>, citation)
           [] OTHER -> NoMetadata
    ELSE CASE style = "APA" -> FirstSearch(<<"bibmeta:APA:1", "bibmeta:APA:2">>, citation)
           [] style = "MLA" -> FirstSearch(<<"bibmeta:MLA:1", "bibmeta:MLA:2">>, citation)
           [] OTHER -> NoMetadata

is_matching_citation(author, year, bib_author, bib_year, style) ==
    LET author_simple == Strip(RemoveAll(LowerStr(author), EtAl \o <<".">>))
        bib_author_simple == Strip(LowerStr(bib_author))
        bib_surname == IF Contains(bib_author_simple, ",")
                       THEN Strip(SplitFirst(bib_author_simple, <<",">>))
                       ELSE IF bib_author_simple # << >>
                            THEN SplitFirst(bib_author_simple, <<" ">>)
                            ELSE << >>
        author_match == \/ IsSubstring(author_simple, bib_author_simple)
                        \/ IsSubstring(bib_surname, author_simple)
    IN  IF author = << >> /\ year = "" THEN FALSE
        ELSE IF style = "MLA" THEN author_match
        ELSE author_match /\ year = bib_year

\* list.index(x), counted from 0
index_of(xs, x) ==
    (CHOOSE i \in 1..Len(xs) : xs[i] = x /\ \A k \in 1..(i - 1) : xs[k] # x) - 1

GraphNodes(citations, style, citation_type) ==
    [i \in 1..Len(citations) |->
        [text |-> citations[i],
         metadata |-> extract_citation_metadata(citations[i], style, citation_type),
         type |-> citation_type]]

\* the edges of one in-text node, in the order of the bibliography nodes
EdgesOf(in_text, in_text_nodes, bib_nodes, style) ==
    LET author == in_text.metadata.author
        year == in_text.metadata.year
        edge(bib) == IF is_matching_citation(author, year, bib.metadata.author,
                                             bib.metadata.year, style)
                     THEN << [source |-> in_text.text, target |-> bib.text,
                              source_idx |-> index_of(in_text_nodes, in_text),
                              target_idx |-> index_of(bib_nodes, bib)] >>
                     ELSE << >>
    IN IF author # << >> \/ year # ""
       THEN Flatten([k \in 1..Len(bib_nodes) |-> edge(bib_nodes[k])])
       ELSE << >>

extract_citation_graph(txt, style) ==
    LET in_text_nodes == GraphNodes(extract_in_text_citations(txt, style), style, "in_text")
        bib_nodes == GraphNodes(extract_bibliography_citations(txt, style), style,
                                "bibliography")
    IN [in_text_nodes |-> in_text_nodes,
        bibliography_nodes |-> bib_nodes,
        edges |-> Flatten([i \in 1..Len(in_text_nodes) |->
                             EdgesOf(in_text_nodes[i], in_text_nodes, bib_nodes, style)])]

----------------------------------------------------------------------------
(* The operations *)

NoCall == [op |-> "other", result |-> << >>]

Init ==
    /\ in_text_patterns = InitInTextPatterns
    /\ full_citation_patterns = InitFullCitationPatterns
    /\ loads = 0
    /\ self_patterns = None
    /\ text \in Texts
    /\ op = "init"
    /\ args = << >>
    /\ result = << >>
    /\ before = [catalog |-> catalog, patterns |-> self_patterns, last |-> NoCall]

\* the history variable, set by every operation
Record ==
    before' = [catalog |-> catalog,
               patterns |-> self_patterns,
               last |-> IF op = "identify_primary_style"
                        THEN [op |-> op, result |-> result] ELSE NoCall]

\* __init__ with load_custom_patterns: the one configuration file is loaded
\* before the detector is used, and nothing else calls the loader
LoadCustomPatterns(cfg) ==
    /\ op = "init"
    /\ loads = 0
    /\ in_text_patterns' = MergePatterns(in_text_patterns, cfg.in_text_patterns)
    /\ full_citation_patterns' = MergePatterns(full_citation_patterns, cfg.full_citation_patterns)
    /\ loads' = loads + 1
    /\ op' = "_load_custom_patterns"
    /\ args' = <<cfg>>
    /\ result' = << >>
    /\ Record
    /\ UNCHANGED self_patterns
    /\ UNCHANGED text

DetectCitationStyles ==
    /\ op' = "detect_citation_styles"
    /\ args' = << >>
    /\ result' = detect_citation_styles(in_text_patterns, full_citation_patterns, text)
    /\ Record
    /\ UNCHANGED self_patterns
    /\ UNCHANGED <<in_text_patterns, full_citation_patterns, loads, text>>

\* a call that drops the bibliography patterns of the catalog
IdentifyPrimaryStyle_Forgetful ==
    /\ op' = "identify_primary_style"
    /\ args' = << >>
    /\ result' = identify_primary_style(in_text_patterns, full_citation_patterns, text)
    /\ Record
    /\ UNCHANGED self_patterns
    /\ full_citation_patterns' = EmptyDict
    /\ UNCHANGED <<in_text_patterns, loads, text>>

IdentifyPrimaryStyle ==
    /\ op' = "identify_primary_style"
    /\ args' = << >>
    /\ result' = identify_primary_style(in_text_patterns, full_citation_patterns, text)
    /\ Record
    /\ UNCHANGED self_patterns
    /\ UNCHANGED <<in_text_patterns, full_citation_patterns, loads, text>>

ExtractCitations ==
    /\ op' = "extract_citations"
    /\ args' = << >>
    /\ result' = extract_citations(in_text_patterns, full_citation_patterns, text)
    /\ Record
    /\ UNCHANGED self_patterns
    /\ UNCHANGED <<in_text_patterns, full_citation_patterns, loads, text>>

Next ==
    \/ \E cfg \in CustomConfigs : LoadCustomPatterns(cfg)
    \/ DetectCitationStyles
    \/ IdentifyPrimaryStyle
    \/ ExtractCitations

Spec == Init /\ [][Next]_vars

\* The operations that take a style, applied to a text and a style: the
\* detector has the catalog it is constructed with.
StyleInit ==
    /\ in_text_patterns = InitInTextPatterns
    /\ full_citation_patterns = InitFullCitationPatterns
    /\ loads = 0
    /\ self_patterns = None
    /\ text \in Texts
    /\ op = "init"
    /\ args \in {<<style>> : style \in Styles}
    /\ result = << >>
    /\ before = [catalog |-> catalog, patterns |-> self_patterns, last |-> NoCall]

ExtractInTextCitations ==
    /\ op = "init"
    /\ op' = "extract_in_text_citations"
    /\ \/ result' = Returned(extract_in_text_citations(text, args[1]))
       \/ result' = Raised
    /\ Record
    /\ UNCHANGED self_patterns
    /\ UNCHANGED <<in_text_patterns, full_citation_patterns, loads, text, args>>

ExtractBibliographyCitations ==
    /\ op = "init"
    /\ op' = "extract_bibliography_citations"
    /\ \/ result' = Returned(extract_bibliography_citations(text, args[1]))
       \/ result' = Raised
    /\ Record
    /\ UNCHANGED self_patterns
    /\ UNCHANGED <<in_text_patterns, full_citation_patterns, loads, text, args>>

DetectCitationStyle ==
    /\ op = "init"
    /\ op' = "_detect_citation_style"
    /\ result' = detect_citation_style(text)
    /\ Record
    /\ UNCHANGED self_patterns
    /\ UNCHANGED <<in_text_patterns, full_citation_patterns, loads, text, args>>

\* CitationStyleDetector._extract_citation_keys(text, style)
ExtractCitationKeys ==
    /\ op = "init"
    /\ op' = "_extract_citation_keys"
    /\ result' \in Orders(Range(detector_citation_keys(text, args[1])))
    /\ Record
    /\ UNCHANGED self_patterns
    /\ UNCHANGED <<in_text_patterns, full_citation_patterns, loads, text, args>>

\* CitationValidator._extract_citation_keys(citations, style), the citations
\* being the lines of the text
ValidatorExtractCitationKeys ==
    /\ op = "init"
    /\ op' = "validator._extract_citation_keys"
    /\ result' = validator_citation_keys(text, args[1])
    /\ Record
    /\ UNCHANGED self_patterns
    /\ UNCHANGED <<in_text_patterns, full_citation_patterns, loads, text, args>>

\* the detector's operations on the same text
StyleIdentifyPrimaryStyle ==
    /\ op = "init"
    /\ op' = "identify_primary_style"
    /\ result' = identify_primary_style(in_text_patterns, full_citation_patterns, text)
    /\ Record
    /\ UNCHANGED self_patterns
    /\ UNCHANGED <<in_text_patterns, full_citation_patterns, loads, text, args>>

StyleExtractCitations ==
    /\ op = "init"
    /\ op' = "extract_citations"
    /\ result' = extract_citations(in_text_patterns, full_citation_patterns, text)
    /\ Record
    /\ UNCHANGED self_patterns
    /\ UNCHANGED <<in_text_patterns, full_citation_patterns, loads, text, args>>

\* validate_citations, the citations without a bibliography entry
CitedNotReferenced ==
    /\ op = "init"
    /\ op' = "cited_not_referenced"
    /\ result' \in cited_not_referenced(full_citation_patterns, text, args[1])
    /\ Record
    /\ UNCHANGED self_patterns
    /\ UNCHANGED <<in_text_patterns, full_citation_patterns, loads, text, args>>

\* validate_citations, the bibliography entries no citation refers to
ReferencedNotCited ==
    /\ op = "init"
    /\ op' = "referenced_not_cited"
    /\ result' = referenced_not_cited(full_citation_patterns, text, args[1])
    /\ Record
    /\ UNCHANGED self_patterns
    /\ UNCHANGED <<in_text_patterns, full_citation_patterns, loads, text, args>>

StyleNext ==
    \/ ExtractInTextCitations
    \/ ExtractBibliographyCitations
    \/ DetectCitationStyle
    \/ ExtractCitationKeys
    \/ ValidatorExtractCitationKeys
    \/ StyleIdentifyPrimaryStyle
    \/ StyleExtractCitations
    \/ CitedNotReferenced
    \/ ReferencedNotCited

StyleSpec == StyleInit /\ [][StyleNext]_vars

\* _match_author_names applied to two names
AuthorsInit ==
    /\ in_text_patterns = InitInTextPatterns
    /\ full_citation_patterns = InitFullCitationPatterns
    /\ loads = 0
    /\ self_patterns = None
    /\ text = <<"">>
    /\ op = "init"
    /\ args \in Names \X Names
    /\ result = << >>
    /\ before = [catalog |-> catalog, patterns |-> self_patterns, last |-> NoCall]

MatchAuthorNames ==
    /\ op = "init"
    /\ op' = "_match_author_names"
    /\ result' = match_author_names(args[1], args[2])
    /\ Record
    /\ UNCHANGED self_patterns
    /\ UNCHANGED <<in_text_patterns, full_citation_patterns, loads, text, args>>

NormalizeAuthorName ==
    /\ op = "init"
    /\ op' = "_normalize_author_name"
    /\ result' = normalize_author_name(args[1])
    /\ Record
    /\ UNCHANGED self_patterns
    /\ UNCHANGED <<in_text_patterns, full_citation_patterns, loads, text, args>>

AuthorsNext == MatchAuthorNames \/ NormalizeAuthorName

AuthorsSpec == AuthorsInit /\ [][AuthorsNext]_vars

----------------------------------------------------------------------------
(* The matching operations, on lists of keys and of entries *)

MatchInit ==
    /\ in_text_patterns = InitInTextPatterns
    /\ full_citation_patterns = InitFullCitationPatterns
    /\ loads = 0
    /\ self_patterns = None
    /\ text = <<"">>
    /\ op = "init"
    /\ args \in SeqsUpTo(CitationKeys, MaxCitations)
                    \X SeqsUpTo(ReferenceKeys, MaxReferences) \X MatchStyles
    /\ result = << >>
    /\ before = [catalog |-> catalog, patterns |-> self_patterns, last |-> NoCall]

\* CitationStyleDetector._find_citations_without_references(citations, references, style)
FindCitationsWithoutReferences ==
    /\ op = "init"
    /\ op' = "_find_citations_without_references"
    /\ result' = find_citations_without_references(args[1], args[2], args[3])
    /\ Record
    /\ UNCHANGED self_patterns
    /\ UNCHANGED <<in_text_patterns, full_citation_patterns, loads, text, args>>

\* CitationStyleDetector._find_references_without_citations(citations, references, style)
FindReferencesWithoutCitations ==
    /\ op = "init"
    /\ op' = "_find_references_without_citations"
    /\ result' = find_references_without_citations(args[1], args[2], args[3])
    /\ Record
    /\ UNCHANGED self_patterns
    /\ UNCHANGED <<in_text_patterns, full_citation_patterns, loads, text, args>>

\* CitationValidator._find_matching_reference(author, year, bib_keys, style),
\* called for one of the in-text keys
FindMatchingReference ==
    /\ op = "init"
    /\ op' = "_find_matching_reference"
    /\ \E i \in DOMAIN args[1] :
        result' = [key |-> args[1][i],
                   found |-> find_matching_reference(args[1][i][1], args[1][i][2],
                                                     args[2], args[3])]
    /\ Record
    /\ UNCHANGED self_patterns
    /\ UNCHANGED <<in_text_patterns, full_citation_patterns, loads, text, args>>

\* CitationValidator._find_matching_citation(author, year, in_text_keys, style),
\* called for one of the bibliography keys
FindMatchingCitation ==
    /\ op = "init"
    /\ op' = "_find_matching_citation"
    /\ \E i \in DOMAIN args[2] :
        result' = [key |-> args[2][i],
                   found |-> find_matching_citation(args[2][i][1], args[2][i][2],
                                                    args[1], args[3])]
    /\ Record
    /\ UNCHANGED self_patterns
    /\ UNCHANGED <<in_text_patterns, full_citation_patterns, loads, text, args>>

MatchNext ==
    \/ FindCitationsWithoutReferences
    \/ FindReferencesWithoutCitations
    \/ FindMatchingReference
    \/ FindMatchingCitation

MatchSpec == MatchInit /\ [][MatchNext]_vars

----------------------------------------------------------------------------
(* The validator's consistency check, on lists of citations and of entries *)

ConsistencyInit ==
    /\ in_text_patterns = InitInTextPatterns
    /\ full_citation_patterns = InitFullCitationPatterns
    /\ loads = 0
    /\ self_patterns = None
    /\ text = <<"">>
    /\ op = "init"
    /\ args \in SeqsUpTo(InTextStrings, MaxCitations)
                    \X SeqsUpTo(BibliographyStrings, MaxReferences) \X Styles
    /\ result = << >>
    /\ before = [catalog |-> catalog, patterns |-> self_patterns, last |-> NoCall]

\* CitationValidator.validate_citation_consistency(citations, style)
ValidateCitationConsistency ==
    /\ op = "init"
    /\ op' = "validate_citation_consistency"
    /\ result' = validate_citation_consistency(args[1], args[2], args[3])
    /\ Record
    /\ UNCHANGED self_patterns
    /\ UNCHANGED <<in_text_patterns, full_citation_patterns, loads, text, args>>

\* CitationValidator._extract_bibliography_keys(citations, style)
ExtractBibliographyKeys ==
    /\ op = "init"
    /\ op' = "_extract_bibliography_keys"
    /\ result' = extract_bibliography_keys(args[2], args[3])
    /\ Record
    /\ UNCHANGED self_patterns
    /\ UNCHANGED <<in_text_patterns, full_citation_patterns, loads, text, args>>

ConsistencyNext == ValidateCitationConsistency \/ ExtractBibliographyKeys

ConsistencySpec == ConsistencyInit /\ [][ConsistencyNext]_vars

----------------------------------------------------------------------------
(* The catalog's operations *)

PatternsInit ==
    /\ in_text_patterns = InitInTextPatterns
    /\ full_citation_patterns = InitFullCitationPatterns
    /\ loads = 0
    /\ self_patterns = CitationPatterns
    /\ text = <<"">>
    /\ op = "init"
    /\ args = << >>
    /\ result = << >>
    /\ before = [catalog |-> catalog, patterns |-> self_patterns, last |-> NoCall]

\* the number of sources in the raw tables
CatalogSize(self) ==
    SumSeq([i \in 1..Len(self.in_text_patterns.keys) |->
                Len(self.in_text_patterns.val[self.in_text_patterns.keys[i]])])
    + SumSeq([i \in 1..Len(self.bibliography_patterns.keys) |->
                Len(self.bibliography_patterns.val[self.bibliography_patterns.keys[i]])])
    + SumSeq([i \in 1..Len(self.bibliography_headers.keys) |->
                Len(self.bibliography_headers.val[self.bibliography_headers.keys[i]])])

\* CitationPatterns.add_custom_pattern(style, pattern_type, pattern)
AddCustomPattern(style, pattern_type, pattern) ==
    LET call == add_custom_pattern(self_patterns, style, pattern_type, pattern)
    IN  /\ CatalogSize(self_patterns) < CatalogSize(CitationPatterns) + MaxAdds
        /\ op' = "add_custom_pattern"
        /\ args' = <<style, pattern_type, pattern>>
        /\ result' = call.outcome
        /\ self_patterns' = call.self
        /\ Record
        /\ UNCHANGED <<in_text_patterns, full_citation_patterns, loads, text>>

\* CitationPatterns.get_pattern(style, pattern_type, index)
GetPattern(style, pattern_type, index) ==
    /\ op' = "get_pattern"
    /\ args' = <<style, pattern_type, index>>
    /\ result' = get_pattern(self_patterns, style, pattern_type, index)
    /\ Record
    /\ UNCHANGED <<in_text_patterns, full_citation_patterns, loads, text, self_patterns>>

PatternsNext ==
    \/ \E style \in CatalogStyles, pattern_type \in PatternTypes, pattern \in PatternSources :
            AddCustomPattern(style, pattern_type, pattern)
    \/ \E style \in CatalogStyles, pattern_type \in PatternTypes, index \in {NoIndex, 0, 1} :
            GetPattern(style, pattern_type, index)

PatternsSpec == PatternsInit /\ [][PatternsNext]_vars

----------------------------------------------------------------------------
(* The detector constructed with a configuration file of any content *)

LoadInit ==
    /\ in_text_patterns = InitInTextPatterns
    /\ full_citation_patterns = InitFullCitationPatterns
    /\ loads = 0
    /\ self_patterns = None
    /\ text \in Texts
    /\ op = "init"
    /\ args = << >>
    /\ result = << >>
    /\ before = [catalog |-> catalog, patterns |-> self_patterns, last |-> NoCall]

\* __init__ with load_custom_patterns and the path of the file
LoadFile(cfg) ==
    LET call == load_custom_patterns(in_text_patterns, full_citation_patterns, cfg)
    IN  /\ op = "init"
        /\ loads = 0
        /\ in_text_patterns' = call.in_text_patterns
        /\ full_citation_patterns' = call.full_citation_patterns
        /\ loads' = loads + 1
        /\ op' = "_load_custom_patterns"
        /\ args' = <<cfg>>
        /\ result' = [logged |-> call.logged]
        /\ Record
        /\ UNCHANGED <<text, self_patterns>>

\* detect_citation_styles(text) on the constructed detector
Score ==
    /\ op' = "detect_citation_styles"
    /\ args' = << >>
    /\ result' = detect_citation_styles_call(in_text_patterns, full_citation_patterns, text)
    /\ Record
    /\ UNCHANGED <<in_text_patterns, full_citation_patterns, loads, text, self_patterns>>

LoadNext ==
    \/ \E cfg \in ConfigFiles : LoadFile(cfg)
    \/ Score

LoadSpec == LoadInit /\ [][LoadNext]_vars

----------------------------------------------------------------------------
(* The extractor constructed with or without a catalog *)

\* the styles extract_in_text_citations is called with: "DOI" is a style of
\* the custom catalog only, "UNKNOWN" of no table
SelectStyles == {"CHICAGO", "APA", "DOI", "UNKNOWN"}

SelectInit ==
    /\ in_text_patterns = InitInTextPatterns
    /\ full_citation_patterns = InitFullCitationPatterns
    /\ loads = 0
    /\ self_patterns \in InjectedCatalogs
    /\ text \in Texts
    /\ op = "init"
    /\ args \in {<<style>> : style \in SelectStyles}
    /\ result = << >>
    /\ before = [catalog |-> catalog, patterns |-> self_patterns, last |-> NoCall]

\* CitationExtractor(patterns).extract_in_text_citations(text, style)
CatalogExtractInTextCitations ==
    /\ op = "init"
    /\ op' = "extract_in_text_citations"
    /\ \/ result' = Returned(catalog_extract_in_text_citations(self_patterns, text, args[1]))
       \/ result' = Raised
    /\ Record
    /\ UNCHANGED <<in_text_patterns, full_citation_patterns, loads, text, args, self_patterns>>

SelectNext == CatalogExtractInTextCitations

SelectSpec == SelectInit /\ [][SelectNext]_vars

----------------------------------------------------------------------------
(* The section splitters on texts with a header and lines after it *)

\* the lines of these texts and the styles the splitters are called with
SectionLines == {"", "Hello.", "References", "Smith, J. A. (2020). Title. Publisher."}

SectionTexts == SeqsUpTo(SectionLines, MaxSectionLen) \ {<< >>}

SectionStyles == {"APA", "MLA", "UNKNOWN"}

SectionInit ==
    /\ in_text_patterns = InitInTextPatterns
    /\ full_citation_patterns = InitFullCitationPatterns
    /\ loads = 0
    /\ self_patterns = None
    /\ text \in SectionTexts
    /\ op = "init"
    /\ args \in {<<style>> : style \in SectionStyles}
    /\ result = << >>
    /\ before = [catalog |-> catalog, patterns |-> self_patterns, last |-> NoCall]

\* CitationStyleDetector._find_bibliography_section(text, style)
FindBibliographySection ==
    /\ op = "init"
    /\ op' = "_find_bibliography_section"
    /\ result' = Returned(find_bibliography_section(full_citation_patterns, text, args[1]))
    /\ Record
    /\ UNCHANGED <<in_text_patterns, full_citation_patterns, loads, text, args, self_patterns>>

\* CitationExtractor._extract_bibliography_section(text, style)
ExtractBibliographySection ==
    /\ op = "init"
    /\ op' = "_extract_bibliography_section"
    /\ \/ result' = Returned(extract_bibliography_section(text, args[1]))
       \/ result' = Raised
    /\ Record
    /\ UNCHANGED <<in_text_patterns, full_citation_patterns, loads, text, args, self_patterns>>

\* CitationExtractor._extract_main_text(text)
ExtractMainText ==
    /\ op = "init"
    /\ op' = "_extract_main_text"
    /\ \/ result' = Returned(extract_main_text(text))
       \/ result' = Raised
    /\ Record
    /\ UNCHANGED <<in_text_patterns, full_citation_patterns, loads, text, args, self_patterns>>

SectionNext ==
    \/ FindBibliographySection
    \/ ExtractBibliographySection
    \/ ExtractMainText

SectionSpec == SectionInit /\ [][SectionNext]_vars

----------------------------------------------------------------------------
(* The detector's validation and analysis of a text *)

ValidateInit ==
    /\ in_text_patterns = InitInTextPatterns
    /\ full_citation_patterns = InitFullCitationPatterns
    /\ loads = 0
    /\ self_patterns = None
    /\ text \in Texts
    /\ op = "init"
    /\ args = << >>
    /\ result = << >>
    /\ before = [catalog |-> catalog, patterns |-> self_patterns, last |-> NoCall]

\* the orders in which the keys without an entry can come out for the text
MissingOrders ==
    cited_not_referenced(full_citation_patterns, text,
        identify_primary_style(in_text_patterns, full_citation_patterns, text).style)

\* CitationStyleDetector.validate_citations(text)
ValidateCitations ==
    /\ op = "init"
    /\ op' = "validate_citations"
    /\ \E missing \in MissingOrders :
            result' = validate_citations(in_text_patterns, full_citation_patterns, text, missing)
    /\ Record
    /\ UNCHANGED <<in_text_patterns, full_citation_patterns, loads, text, args, self_patterns>>

\* CitationStyleDetector.analyze_text(text)
AnalyzeText ==
    /\ op = "init"
    /\ op' = "analyze_text"
    /\ \E missing \in MissingOrders :
            result' = analyze_text(in_text_patterns, full_citation_patterns, text, missing)
    /\ Record
    /\ UNCHANGED <<in_text_patterns, full_citation_patterns, loads, text, args, self_patterns>>

ValidateNext == ValidateCitations \/ AnalyzeText

ValidateSpec == ValidateInit /\ [][ValidateNext]_vars

\* extract_citation_graph applied to a text and a style, and
\* _is_matching_citation to the authors and years of two nodes
GraphLines == {"", "(Smith 25)", "(Smith, 2020)", "Smith, J. A. (2020). Title. Publisher."}

GraphTexts == SeqsUpTo(GraphLines, MaxGraphLen) \ {<< >>}

GraphStyles == {"APA", "MLA"}

GraphAuthors == {<< >>, Smith, Smith \o <<" ">> \o EtAl \o <<".">>,
                 Smith \o <<",", " ", "J", ".", " ", "A", ".">>}

GraphYears == {"", "2020"}

GraphInit ==
    /\ in_text_patterns = InitInTextPatterns
    /\ full_citation_patterns = InitFullCitationPatterns
    /\ loads = 0
    /\ self_patterns = None
    /\ text \in GraphTexts
    /\ op = "init"
    /\ args \in {<<style>> : style \in GraphStyles}
    /\ result = << >>
    /\ before = [catalog |-> catalog, patterns |-> self_patterns, last |-> NoCall]

ExtractCitationGraph ==
    /\ op = "init"
    /\ op' = "extract_citation_graph"
    /\ \/ result' = Returned(extract_citation_graph(text, args[1]))
       \/ result' = Raised
    /\ Record
    /\ UNCHANGED self_patterns
    /\ UNCHANGED <<in_text_patterns, full_citation_patterns, loads, text, args>>

IsMatchingCitation ==
    /\ op = "init"
    /\ op' = "_is_matching_citation"
    /\ \E author \in GraphAuthors, year \in GraphYears,
          bib_author \in GraphAuthors, bib_year \in GraphYears :
            /\ args' = <<author, year, bib_author, bib_year, args[1]>>
            /\ result' = is_matching_citation(author, year, bib_author, bib_year, args[1])
    /\ Record
    /\ UNCHANGED self_patterns
    /\ UNCHANGED <<in_text_patterns, full_citation_patterns, loads, text>>

GraphNext ==
    \/ ExtractCitationGraph
    \/ IsMatchingCitation

GraphSpec == GraphInit /\ [][GraphNext]_vars

\* _is_valid_citation applied to a candidate, a style and a citation type
CandidatePieces ==
    (Lines \ {""}) \cup {"(2020)", "Jones 2019", "1. Smith, J. Title, 2020.",
                         "smith, j. (2020). title here."}

\* " ".join(pieces)
RECURSIVE JoinPieces(_)
JoinPieces(pieces) ==
    IF Len(pieces) <= 1 THEN pieces
    ELSE <<Head(pieces), " ">> \o JoinPieces(Tail(pieces))

Candidates == {JoinPieces(pieces) : pieces \in SeqsUpTo(CandidatePieces, MaxPieces) \ {<< >>}}

CandidateInit ==
    /\ in_text_patterns = InitInTextPatterns
    /\ full_citation_patterns = InitFullCitationPatterns
    /\ loads = 0
    /\ self_patterns = None
    /\ text = <<"">>
    /\ op = "init"
    /\ args \in Candidates \X Styles \X {"in_text", "bibliography"}
    /\ result = << >>
    /\ before = [catalog |-> catalog, patterns |-> self_patterns, last |-> NoCall]

IsValidCitation ==
    /\ op = "init"
    /\ op' = "_is_valid_citation"
    /\ result' = is_valid_citation(args[1], args[2], args[3])
    /\ Record
    /\ UNCHANGED self_patterns
    /\ UNCHANGED <<in_text_patterns, full_citation_patterns, loads, text, args>>

CandidateNext == IsValidCitation

CandidateSpec == CandidateInit /\ [][CandidateNext]_vars

----------------------------------------------------------------------------
(* Properties *)

SubStyles == {"CHICAGO_AUTHOR_DATE", "CHICAGO_NOTES"}

CatalogOrder == <<"APA", "MLA", "CHICAGO", "HARVARD", "IEEE", "VANCOUVER", "CSE">>

\* the counts of the text under the current catalog
Scores == detect_citation_styles(in_text_patterns, full_citation_patterns, text)

GrandTotalOf(scores) ==
    SumSeq(DictValues(scores.in_text)) + SumSeq(DictValues(scores.full_citation))

\* the matches of the extractor's patterns of a style in the text
ExtractorCount(style) ==
    SumSeq([i \in 1..Len(extractor_in_text_patterns.val[style]) |->
                Len(FindAll(extractor_in_text_patterns.val[style][i], text))])

NoDuplicates(xs) == \A i, j \in 1..Len(xs) : xs[i] = xs[j] => i = j

FirstIndex(xs, x) == CHOOSE i \in 1..Len(xs) : xs[i] = x /\ \A k \in 1..(i - 1) : xs[k] # x

\* out holds every string of collected once, in the order of first occurrence
FirstSeenOrder(out, collected) ==
    /\ NoDuplicates(out)
    /\ Range(out) = Range(collected)
    /\ \A i, j \in 1..Len(out) : i < j => FirstIndex(collected, out[i]) < FirstIndex(collected, out[j])

\* out holds every string of collected once, in ascending order
AscendingOrder(out, collected) ==
    /\ Range(out) = Range(collected)
    /\ \A i \in 1..(Len(out) - 1) : StrLess(out[i], out[i + 1])

C2_Original ==
    LET scores == Scores
        combined == combined_results(scores)
        chicago == scores.in_text.val["CHICAGO_AUTHOR_DATE"] + scores.in_text.val["CHICAGO_NOTES"]
                   + DictGet(scores.full_citation, "CHICAGO", 0)
    IN  /\ combined.val["CHICAGO"] = chicago
        /\ (op = "identify_primary_style" /\ result.style = "CHICAGO") =>
                result.confidence = Conf(chicago, GrandTotalOf(scores))
        /\ DictGet(style_counts_of(text), "CHICAGO", 0) =
                ExtractorCount("CHICAGO_AUTHOR_DATE") + ExtractorCount("CHICAGO_NOTES")

\* C2 amended: in the detector the combined CHICAGO score is the two
\* sub-style in-text counts, plus the count of the in-text patterns a custom
\* configuration registered under CHICAGO itself, plus the CHICAGO
\* bibliography count; it is the numerator of the confidence when CHICAGO is
\* returned; the combined scores add up to the grand total (nothing lost,
\* nothing counted twice); the extractor's CHICAGO count is the sum of its
\* two sub-style counts.
C2_ChicagoFusion ==
    LET scores == Scores
        combined == combined_results(scores)
        chicago == scores.in_text.val["CHICAGO_AUTHOR_DATE"] + scores.in_text.val["CHICAGO_NOTES"]
                   + DictGet(scores.in_text, "CHICAGO", 0)
                   + DictGet(scores.full_citation, "CHICAGO", 0)
    IN  /\ combined.val["CHICAGO"] = chicago
        /\ SumSeq(DictValues(combined)) = GrandTotalOf(scores)
        /\ (op = "identify_primary_style" /\ result.style = "CHICAGO") =>
                result.confidence = Conf(chicago, GrandTotalOf(scores))
        /\ DictGet(style_counts_of(text), "CHICAGO", 0) =
                ExtractorCount("CHICAGO_AUTHOR_DATE") + ExtractorCount("CHICAGO_NOTES")

\* CHICAGO is returned for a text with matches of both sub-styles and of a
\* pattern registered under CHICAGO itself
C2_Witness ==
    /\ op = "identify_primary_style"
    /\ result.style = "CHICAGO"
    /\ Scores.in_text.val["CHICAGO_NOTES"] > 0
    /\ DictGet(Scores.in_text, "CHICAGO", 0) > 0
    /\ result.confidence.num > Scores.in_text.val["CHICAGO_NOTES"]

\* C3: no result of a public operation contains a Chicago sub-style tag.
C3_NoSubStyleTags ==
    /\ op = "detect_citation_styles" =>
            /\ Range(result.in_text.keys) \cap SubStyles = {}
            /\ Range(result.full_citation.keys) \cap SubStyles = {}
    /\ op = "identify_primary_style" => result.style \notin SubStyles

\* C4: the style returned has the maximum combined count, and among the
\* styles with that count it is the first one in the catalog order.
C4_TieBreak ==
    (op = "identify_primary_style" /\ result.style # NoCitations) =>
        LET combined == combined_results(Scores)
            best == combined.val[result.style]
        IN  /\ \A k \in Range(combined.keys) : combined.val[k] <= best
            /\ \A i \in 1..Len(CatalogOrder) :
                  combined.val[CatalogOrder[i]] = best =>
                      /\ result.style \in Range(CatalogOrder)
                      /\ \A j \in 1..Len(CatalogOrder) : CatalogOrder[j] = result.style => j <= i

\* two styles share the maximum and the earlier one was returned
C4_Witness ==
    /\ op = "identify_primary_style"
    /\ result.style = "MLA"
    /\ combined_results(Scores).val["CSE"] = combined_results(Scores).val["MLA"]

\* C5: identify_primary_style leaves the catalog as it was, and called twice
\* in a row it returns the same (style, confidence) pair.
C5_Determinism ==
    op = "identify_primary_style" =>
        /\ catalog = before.catalog
        /\ before.last.op = "identify_primary_style" => result = before.last.result

\* a second call in a row, with a style detected, on a catalog with custom
\* patterns
C5_Witness ==
    /\ op = "identify_primary_style"
    /\ before.last.op = "identify_primary_style"
    /\ result.style # NoCitations
    /\ loads > 0

\* no pattern of the detector or of the extractor matches in the text
NothingMatches ==
    /\ GrandTotalOf(Scores) = 0
    /\ \A style \in Range(extractor_in_text_patterns.keys) : ExtractorCount(style) = 0

\* C6: for a text in which no pattern matches (the empty text and the blank
\* texts among them) identify_primary_style returns the sentinel with
\* confidence 0.0, both lists of extract_citations are empty, and the two
\* extractor operations return the empty list.
C6_NoCitations ==
    NothingMatches =>
        /\ op = "identify_primary_style" =>
                result = [style |-> NoCitations, confidence |-> Conf(0, 1)]
        /\ op = "extract_citations" =>
                result = [en_texto |-> << >>, bibliograficas |-> << >>]
        /\ op \in {"extract_in_text_citations", "extract_bibliography_citations"} =>
                result = Returned(<< >>)

\* C7: no list an extraction operation returns holds the same string twice.
C7_NoDuplicates ==
    /\ op \in {"extract_in_text_citations", "extract_bibliography_citations"} =>
            (result.raised = "" => NoDuplicates(result.value))
    /\ op = "extract_citations" =>
            NoDuplicates(result.en_texto) /\ NoDuplicates(result.bibliograficas)

\* C8 as stated: the list of extract_in_text_citations and the two lists of
\* extract_citations hold each collected string once, in the order of first
\* occurrence among the collected matches.
C8_Original ==
    /\ (op = "extract_in_text_citations" /\ result.raised = "") =>
            FirstSeenOrder(result.value, collected_in_text(text, args[1]))
    /\ op = "extract_citations" =>
            LET collected == extract_citations_unsorted(in_text_patterns,
                                                        full_citation_patterns, text)
            IN /\ FirstSeenOrder(result.en_texto, collected.en_texto)
               /\ FirstSeenOrder(result.bibliograficas, collected.bibliograficas)

\* C8 amended: the list of extract_in_text_citations holds each collected
\* string once, in the order of first occurrence among the collected matches;
\* the two lists of extract_citations hold each collected string once, in
\* ascending order of the strings.
C8_FirstSeenOrSorted ==
    /\ (op = "extract_in_text_citations" /\ result.raised = "") =>
            FirstSeenOrder(result.value, collected_in_text(text, args[1]))
    /\ op = "extract_citations" =>
            LET collected == extract_citations_unsorted(in_text_patterns,
                                                        full_citation_patterns, text)
            IN /\ AscendingOrder(result.en_texto, collected.en_texto)
               /\ AscendingOrder(result.bibliograficas, collected.bibliograficas)

\* extract_in_text_citations returned fewer strings than it collected, in an
\* order that is not the ascending one
C8_Witness ==
    /\ op = "extract_in_text_citations"
    /\ result.raised = ""
    /\ Len(result.value) < Len(collected_in_text(text, args[1]))
    /\ result.value # sorted_set(result.value)

C10_Symmetric ==
    op = "_match_author_names" => result = match_author_names(args[2], args[1])

\* two names matched through the "et al" of the second one only
C10_Witness ==
    /\ op = "_match_author_names"
    /\ args = << <<"J", "o", "h", "n", " ">> \o Smith, Smith \o <<" ">> \o EtAl \o <<".">> >>
    /\ result = TRUE

\* the author tests of the validator and of the detector
AuthorMatches(author, key) == match_author_names(author, key[1])

SurnameMatches(author, ref) ==
    /\ author # << >>
    /\ ref_surname(ref[1]) # << >>
    /\ surnames_match(author, ref_surname(ref[1]))

\* the rule for the validator: authors match, and years are equal unless the
\* style is MLA
ValidatorRule(author, year, keys, style) ==
    \E i \in DOMAIN keys :
        /\ AuthorMatches(author, keys[i])
        /\ style # "MLA" => year = keys[i][2]

\* the rule for the detector, on a key and an entry: for MLA the author match
\* decides, for another style a match needs the author match and equal years
DetectorRule(matched, key, ref, style) ==
    IF style = "MLA"
    THEN matched = SurnameMatches(key[1], ref)
    ELSE matched => (SurnameMatches(key[1], ref) /\ key[2] = ref[2])

YearRule_find_matching_reference ==
    op = "_find_matching_reference" =>
        result.found = ValidatorRule(result.key[1], result.key[2], args[2], args[3])

YearRule_find_matching_citation ==
    op = "_find_matching_citation" =>
        result.found = ValidatorRule(result.key[1], result.key[2], args[1], args[3])

\* a key is reported exactly when no entry matches it by the rule (MLA), and
\* is left out only when some entry matches it by the rule (other styles)
YearRule_find_citations_without_references ==
    op = "_find_citations_without_references" =>
        \A k \in DOMAIN args[1] :
            LET key == args[1][k]
                reported == Contains(result, citation_text(key[1], key[2]))
            IN  Strip(key[1]) # << >> =>
                    \E matched \in [DOMAIN args[2] -> BOOLEAN] :
                        /\ \A i \in DOMAIN args[2] :
                                DetectorRule(matched[i], key, args[2][i], args[3])
                        /\ reported = (\A i \in DOMAIN args[2] : ~matched[i])

YearRule_find_references_without_citations ==
    op = "_find_references_without_citations" =>
        \A i \in DOMAIN args[2] :
            LET ref == args[2][i]
                reported == Contains(result, ref)
            IN  Strip(ref_surname(ref[1])) # << >> =>
                    \E matched \in [DOMAIN args[1] -> BOOLEAN] :
                        /\ \A k \in DOMAIN args[1] :
                                DetectorRule(matched[k], args[1][k], ref, args[3])
                        /\ reported = (\A k \in DOMAIN args[1] : ~matched[k])

\* C11: for styles other than MLA a key and an entry match only if their
\* authors match and their years are equal; for MLA the author match alone
\* decides, whatever the years are.  Stated for the validator's two searches
\* and for the detector's two lists.
C11_YearRule ==
    /\ YearRule_find_matching_reference
    /\ YearRule_find_matching_citation
    /\ YearRule_find_citations_without_references
    /\ YearRule_find_references_without_citations

\* what an entry of BibliographyStrings says: its leading surname, its year,
\* and whether it is written in the APA form Surname, I. (Year). Title.
EntrySurname(entry) ==
    IF entry = "Jones, B. (2021). Other Title. Publisher." THEN "Jones" ELSE "Smith"

EntryYear(entry) ==
    IF entry = "Jones, B. (2021). Other Title. Publisher." THEN "2021" ELSE "2020"

ApaEntries ==
    { "Smith, J. A. (2020). Title. Publisher.",
      "Smith, J. (2020). Title. Publisher.",
      "Jones, B. (2021). Other Title. Publisher." }

\* the detector path: in a text whose last line is the entry
\* "Smith, J. A. (2020). Title. Publisher.", after a line "(Smith, 2020)",
\* the citation is not reported in style APA
CitedEntryNotMissing_Detector ==
    ( /\ op = "cited_not_referenced"
      /\ args[1] = "APA"
      /\ Len(text) >= 2
      /\ text[Len(text)] = "Smith, J. A. (2020). Title. Publisher."
      /\ \E i \in 1..(Len(text) - 1) : text[i] = "(Smith, 2020)" )
    => ~Contains(result, citation_text(Smith, "2020"))

\* C12: an in-text citation with a corresponding bibliography entry (same
\* leading surname, same year) is not reported as lacking a reference; here in
\* style APA through validate_citation_consistency, for every citation of the
\* list and every APA entry of the list with its surname and year.
C12_CitedEntryNotMissing ==
    (op = "validate_citation_consistency" /\ args[3] = "APA") =>
        \A i \in DOMAIN args[1] : \A k \in DOMAIN args[2] :
            LET keys == validator_citation_keys(<<args[1][i]>>, "APA")
            IN  \A n \in DOMAIN keys :
                    ( /\ args[2][k] \in ApaEntries
                      /\ keys[n][1] = EntrySurname(args[2][k])
                      /\ keys[n][2] = EntryYear(args[2][k]) )
                    => ~Contains(result, [rule_id |-> "missing_bibliography",
                                          citation |-> keys[n]])

\* the number of times x occurs in a list
Occurrences(list, x) == Cardinality({i \in DOMAIN list : list[i] = x})

\* an in-text key matches a bibliography entry: by surname for MLA, by surname
\* and year for APA, HARVARD and CHICAGO, never for another style
KeyMatchesEntry(key, ref, style) ==
    /\ SurnameMatches(key[1], ref)
    /\ style \in {"APA", "HARVARD", "CHICAGO", "MLA"}
    /\ style # "MLA" => (key[2] # "" /\ key[2] = ref[2])

JonesEntry == <<Jones \o <<",", " ", "B", ".">>, "2021", "Other Title">>

\* C13: _find_references_without_citations returns one descriptor for each
\* bibliography entry with a non-empty parsed author that no in-text key
\* matches, and none for the other entries.
C13_UncitedEntries ==
    op = "_find_references_without_citations" =>
        \A ref \in Range(args[2]) \cup Range(result) :
            Occurrences(result, ref) =
                IF /\ Strip(ref_surname(ref[1])) # << >>
                   /\ \A k \in DOMAIN args[1] : ~KeyMatchesEntry(args[1][k], ref, args[3])
                THEN Occurrences(args[2], ref)
                ELSE 0

\* the entry of Jones (2021) is the one descriptor returned, the other entry
\* being cited
C13_Witness ==
    /\ op = "_find_references_without_citations"
    /\ args[1] # << >>
    /\ Len(args[2]) = 2
    /\ result = <<JonesEntry>>

KnownTypes == {"in_text", "bibliography", "headers"}

\* the call returned the value
Gave(outcome, value) == outcome.raised = "" /\ outcome.value = value

CatalogStyleNames ==
    Range(DefaultInTextPatterns.keys) \cup Range(DefaultBibliographyPatterns.keys)
        \cup Range(DefaultBibliographyHeaders.keys) \cup CatalogStyles

IsPrefixOf(s, t) == Len(s) <= Len(t) /\ \A i \in 1..Len(s) : s[i] = t[i]

\* the list get_pattern(style, pattern_type) gives
Bucket(self, style, pattern_type) == get_pattern(self, style, pattern_type, NoIndex)

\* C15: after add_custom_pattern(style, category, p) returned True,
\* get_pattern(style, category) is the list it was before the call followed by
\* the compiled p, for a style the catalog had as for a new one, and every
\* other (style, category) list is as it was; and no call ever removes or
\* moves a pattern: the list of every bucket before a call is a prefix of its
\* list after the call.
C15_AppendOnly ==
    /\ (op = "add_custom_pattern" /\ Gave(result, TRUE)) =>
            /\ Bucket(self_patterns, args[1], args[2])
                    = Append(Bucket(before.patterns, args[1], args[2]), compile(args[3]))
            /\ \A style \in CatalogStyleNames, pattern_type \in KnownTypes :
                    <<style, pattern_type>> # <<args[1], args[2]>> =>
                        Bucket(self_patterns, style, pattern_type)
                            = Bucket(before.patterns, style, pattern_type)
    /\ \A style \in CatalogStyleNames, pattern_type \in KnownTypes :
            IsPrefixOf(Bucket(before.patterns, style, pattern_type),
                       Bucket(self_patterns, style, pattern_type))

\* a pattern added to a new style, after a pattern was added to a style the
\* catalog had
C15_Witness ==
    /\ op = "add_custom_pattern"
    /\ Gave(result, TRUE)
    /\ args[1] = "DOI" /\ args[2] = "in_text"
    /\ Bucket(before.patterns, "DOI", "in_text") = << >>
    /\ Bucket(self_patterns, "DOI", "in_text") = <<compile("custom:hello")>>
    /\ Len(Bucket(self_patterns, "APA", "in_text")) = Len(DefaultInTextPatterns.val["APA"]) + 1

\* the configuration is malformed: the file does not parse, a part is not an
\* object, or a pattern is not a regular expression
Malformed(cfg) ==
    \/ ~cfg.parses
    \/ ~cfg.in_text_patterns.object
    \/ ~cfg.full_citation_patterns.object
    \/ \E part \in {cfg.in_text_patterns, cfg.full_citation_patterns} :
         \E i \in 1..Len(part.items) :
            \E p \in Range(part.items[i][2]) : compile_outcome(p) = "re.error"

\* a load of a well formed configuration merges it: every style's list is its
\* list before the load followed by the configuration's patterns for it
MergedInto(table, old, part) ==
    \A i \in 1..Len(part.items) :
        LET style == part.items[i][1]
        IN  /\ DictHas(table, style)
            /\ table.val[style]
                 = (IF DictHas(old, style) THEN old.val[style] ELSE << >>) \o part.items[i][2]

WellFormedLoadMerges ==
    (op = "_load_custom_patterns" /\ ~Malformed(args[1])) =>
        /\ MergedInto(in_text_patterns, before.catalog[1], args[1].in_text_patterns)
        /\ MergedInto(full_citation_patterns, before.catalog[2],
                      args[1].full_citation_patterns)

\* C16: a load of a malformed configuration leaves both pattern tables as
\* they were before the load, and scoring never raises afterwards.
C16_MalformedLoadIsAtomic ==
    /\ (op = "_load_custom_patterns" /\ Malformed(args[1])) => catalog = before.catalog
    /\ op = "detect_citation_styles" => result.raised = ""

\* the half of it that holds: a load that fails before the first part is
\* merged changes nothing
EarlyFailureChangesNothing ==
    (op = "_load_custom_patterns"
        /\ (~args[1].parses \/ ~args[1].in_text_patterns.object))
        => catalog = before.catalog

\* the in-text table the extractor is said to select from: the catalog's when
\* one is injected, the local one otherwise
TableInUse(self) ==
    IF self # None
    THEN [keys |-> self.compiled_in_text.keys,
          val |-> [s \in Range(self.compiled_in_text.keys) |->
                        Sources(self.compiled_in_text.val[s])]]
    ELSE extractor_in_text_patterns

\* the lists of patterns the extractor is said to apply for a style
ClaimedSelections(self, style) ==
    LET table == TableInUse(self)
    IN  IF style = "CHICAGO"
        THEN {DictGet(table, "CHICAGO_AUTHOR_DATE", << >>) \o DictGet(table, "CHICAGO_NOTES", << >>)}
        ELSE IF DictGet(table, style, << >>) # << >>
        THEN {table.val[style]}
        ELSE {Flatten(DictValues(table)), Flatten(DictValues(extractor_in_text_patterns))}

\* C17: the in-text patterns applied for style CHICAGO are the
\* CHICAGO_AUTHOR_DATE patterns followed by the CHICAGO_NOTES patterns, for a
\* style with registered in-text patterns that style's list, and for a style
\* with none the patterns of every style (of the catalog or of the local
\* table); with the local table as with an injected catalog, and the call
\* returns what those patterns give.
C17_PatternSelection ==
    op = "extract_in_text_citations" =>
        /\ selected_in_text_patterns(self_patterns, args[1])
                \in ClaimedSelections(self_patterns, args[1])
        /\ result.raised = "" =>
                \E patterns \in ClaimedSelections(self_patterns, args[1]) :
                    result.value = citations_of(patterns, text, args[1])

\* the same with the local table only
PatternSelection_Local ==
    (op = "extract_in_text_citations" /\ self_patterns = None) => C17_PatternSelection

\* the same for every style but CHICAGO
PatternSelection_NotChicago ==
    (op = "extract_in_text_citations" /\ args[1] # "CHICAGO") => C17_PatternSelection

\* the line is a header keyword of the style, for the detector and for the
\* extractor
DetectorHeaderLine(style, l) ==
    \E i \in 1..Len(DetectorHeaders(style)) : header_line(DetectorHeaders(style)[i], l)

ExtractorHeaderLine(style, l) ==
    LET headers == DictGet(bibliography_headers, style, << >>)
    IN \E i \in 1..Len(headers) : header_matches(headers[i], l)

\* the section is the text from its line k to the end, with at most the line
\* break that ends the line before and blank lines in front of it
FromLineToEnd(section, txt, k) ==
    \/ section = SubSeq(txt, k, Len(txt))
    \/ \E j \in 1..(k - 1) :
            /\ \A i \in (j + 1)..(k - 1) : IsBlankLine(txt[i])
            /\ section = <<"">> \o SubSeq(txt, j + 1, Len(txt))

\* the detector's half: the section found runs from a header line to the end
HeaderSectionToEnd_Detector ==
    (op = "_find_bibliography_section"
        /\ \E k \in 1..Len(text) : DetectorHeaderLine(args[1], text[k]))
    => \E k \in 1..Len(text) :
            /\ DetectorHeaderLine(args[1], text[k])
            /\ FromLineToEnd(result.value, text, k)

\* C18: when a line of the text is a header keyword of the style, the section
\* the detector's _find_bibliography_section and the extractor's
\* _extract_bibliography_section return is the text from a header line to the
\* end of the text.
C18_HeaderSectionToEnd ==
    /\ HeaderSectionToEnd_Detector
    /\ (op = "_extract_bibliography_section" /\ result.raised = ""
            /\ \E k \in 1..Len(text) : ExtractorHeaderLine(args[1], text[k]))
       => \E k \in 1..Len(text) :
                /\ ExtractorHeaderLine(args[1], text[k])
                /\ FromLineToEnd(result.value, text, k)

\* a section of the detector that starts at a header in the middle of a text
HeaderSectionToEnd_DetectorCase ==
    /\ op = "_find_bibliography_section"
    /\ args[1] = "APA"
    /\ text = <<"Hello.", "References", "Smith, J. A. (2020). Title. Publisher.", "Hello.">>
    /\ result.value = <<"", "References", "Smith, J. A. (2020). Title. Publisher.", "Hello.">>

\* a + b for two texts: the last line of a and the first line of b are one
\* line of the result.  Every operand here ends or starts at a line break.
Concat(a, b) ==
    IF a[Len(a)] = "" THEN SubSeq(a, 1, Len(a) - 1) \o b
    ELSE IF b[1] = "" THEN a \o Tail(b)
    ELSE a \o <<"+">> \o b

\* C19: for every text and style, the main text _extract_main_text returns
\* followed by the section _extract_bibliography_section returns for the
\* style is the text, and the main text is the whole text when no section is
\* found for the style.
C19_MainTextIsComplement ==
    (op = "_extract_main_text" /\ result.raised = "") =>
        LET section == extract_bibliography_section(text, args[1])
        IN  /\ Concat(result.value, section) = text
            /\ section = <<"">> => result.value = text

\* what holds: the main text is the text up to the line some header or entry
\* starts, or the whole text
MainTextIsPrefix ==
    (op = "_extract_main_text" /\ result.raised = "") =>
        \/ result.value = text
        \/ \E k \in 0..(Len(text) - 1) : result.value = SubSeq(text, 1, k) \o <<"">>

\* the message that signals multiple styles, naming the style
SignalsMultipleStyles(message, style) ==
    /\ message[1] = "Se detectaron múltiples estilos de citación. El estilo predominante es "
    /\ message[2] = style

\* C20: validate_citations puts a multiple-styles message naming the
\* predominant style in 'inconsistencias_estilo' if and only if a style was
\* detected and its confidence is strictly less than 0.7, and analyze_text
\* recommends to unify to the predominant style under the same condition.
C20_MultipleStylesSignal ==
    LET primary == identify_primary_style(in_text_patterns, full_citation_patterns, text)
        mixed == primary.style # NoCitations /\ Below07(primary.confidence)
    IN  /\ op = "validate_citations" =>
                ((\E i \in DOMAIN result.inconsistencias_estilo :
                    SignalsMultipleStyles(result.inconsistencias_estilo[i], primary.style))
                 <=> mixed)
        /\ op = "analyze_text" =>
                /\ result.estilo_predominante = primary.style
                /\ result.nivel_confianza = primary.confidence
                /\ (\E i \in DOMAIN result.recomendaciones :
                        result.recomendaciones[i] = UnifyMessage(primary.style))
                   <=> mixed
                /\ (\E i \in DOMAIN result.problemas.inconsistencias_estilo :
                        SignalsMultipleStyles(result.problemas.inconsistencias_estilo[i],
                                              primary.style))
                   <=> mixed

\* "(Smith, 2020)" is counted for APA and for HARVARD: APA with confidence
\* 1/2, and both signals
C20_Witness ==
    /\ op = "analyze_text"
    /\ text = <<"(Smith, 2020)">>
    /\ result.estilo_predominante = "APA"
    /\ result.nivel_confianza = Conf(1, 2)
    /\ result.recomendaciones[1] = UnifyMessage("APA")
    /\ result.problemas.inconsistencias_estilo[1] = MultipleStylesMessage("APA", Conf(1, 2))

\* a style detected with a confidence of 0.7 or more: no signal
C20_NoSignalCase ==
    /\ op = "validate_citations"
    /\ text = <<"[1]">>
    /\ result.inconsistencias_estilo = << >>

\* the name without its "et al", as a normalized name
WithoutEtAl(norm) == Strip(CollapseSpaces(RemoveAll(norm, EtAl)))

\* the tests the matcher is said to make on two names
ClaimedAuthorMatch(author1, author2) ==
    LET auth1_norm == normalize_author_name(author1)
        auth2_norm == normalize_author_name(author2)
    IN  \/ auth1_norm = auth2_norm
        \/ IsSubstring(EtAl, auth1_norm) /\ IsSubstring(WithoutEtAl(auth1_norm), auth2_norm)
        \/ IsSubstring(EtAl, auth2_norm) /\ IsSubstring(WithoutEtAl(auth2_norm), auth1_norm)
        \/ IsSubstring(auth1_norm, auth2_norm)
        \/ IsSubstring(auth2_norm, auth1_norm)
        \/ MainAuthor(auth1_norm) = MainAuthor(auth2_norm)

\* C21: _match_author_names(a, b) is true exactly when the normalized names
\* are equal, or one contains "et al" and what is left of it without the
\* "et al" is contained in the other, or one is contained in the other, or
\* their first tokens are equal.
C21_MatchRule ==
    op = "_match_author_names" => (result <=> ClaimedAuthorMatch(args[1], args[2]))

\* what holds: the answer is as claimed for names with nothing after "et al"
NothingAfterEtAl(author) ==
    LET norm == normalize_author_name(author)
    IN  IsSubstring(EtAl, norm) => WithoutEtAl(norm) = Strip(SplitFirst(norm, EtAl))

MatchRule_NothingAfterEtAl ==
    (op = "_match_author_names" /\ NothingAfterEtAl(args[1]) /\ NothingAfterEtAl(args[2]))
        => (result <=> ClaimedAuthorMatch(args[1], args[2]))

\* C22: the normalization of "s et al." is the normalization of s, and
\* normalizing a normalized name changes nothing.
C22_NormalizationDropsEtAl ==
    op = "_normalize_author_name" =>
        /\ normalize_author_name(result) = result
        /\ \A s \in Names :
                args[1] = s \o <<" ">> \o EtAl \o <<".">> => result = normalize_author_name(s)

\* what holds of _normalize_author_name: it is idempotent
NormalizationIsIdempotent ==
    op = "_normalize_author_name" => normalize_author_name(result) = result

\* and of the normalization the detector's cross check makes of a key's
\* author: "s et al." and s give the same, and it is idempotent
DetectorNormalizationDropsEtAl ==
    op = "_normalize_author_name" =>
        /\ author_norm_of(author_norm_of(args[1])) = author_norm_of(args[1])
        /\ \A s \in Names :
                args[1] = s \o <<" ">> \o EtAl \o <<".">>
                    => author_norm_of(args[1]) = author_norm_of(s)

\* the node an edge ends at has an author, and so has the one it starts at
EdgeLinksAuthors(graph, e) ==
    /\ graph.bibliography_nodes[e.target_idx + 1].metadata.author # << >>
    /\ graph.in_text_nodes[e.source_idx + 1].metadata.author # << >>

\* C23: a node with an empty author is matched to nothing, in any style: no
\* edge of extract_citation_graph links an in-text citation to a bibliography
\* node with an empty author, and _is_matching_citation is false for an empty
\* author.
C23_EmptyAuthorIsUnmatched ==
    /\ (op = "extract_citation_graph" /\ result.raised = "") =>
            \A i \in 1..Len(result.value.edges) :
                EdgeLinksAuthors(result.value, result.value.edges[i])
    /\ op = "_is_matching_citation" =>
            ((args[1] = << >> \/ args[3] = << >>) => result = FALSE)

\* what holds: in the graph of a text in APA style every edge links two nodes
\* with an author
EdgesLinkAuthors_APA ==
    (op = "extract_citation_graph" /\ result.raised = "" /\ args[1] = "APA") =>
        \A i \in 1..Len(result.value.edges) :
            EdgeLinksAuthors(result.value, result.value.edges[i])

\* and a citation with neither author nor year matches nothing
NoAuthorNoYearIsUnmatched ==
    (op = "_is_matching_citation" /\ args[1] = << >> /\ args[2] = "") => result = FALSE

\* a line that matches one of the style's full-citation patterns
LooksLikeReference(style, l) ==
    LET patterns == DictGet(full_citation_patterns, style, << >>)
    IN \E k \in 1..Len(patterns) : rematch(patterns[k], l)

\* a header line of any style
AnyHeaderLine(l) == \E style \in SectionStyles \cup Styles : DetectorHeaderLine(style, l)

\* the section found when the text has no header of the style and `from` is
\* the first line looked at: empty only if no line looks like a reference,
\* else the text from a line k at or before the last such line, k being the
\* first line, the line after a blank line, or a header line
FallbackSection(from) ==
    LET section == result.value
        matching == {i \in from..Len(text) : LooksLikeReference(args[1], text[i])}
    IN  /\ section = <<"">> <=> matching = {}
        /\ matching # {} =>
            \E k \in 1..Len(text) :
                /\ section = SubSeq(text, k, Len(text))
                /\ \E i \in matching : k <= i
                /\ k = 1 \/ IsBlankLine(text[k - 1]) \/ AnyHeaderLine(text[k])

NoHeaderOfStyle ==
    \A i \in 1..Len(DetectorHeaders(args[1])) : ~HeaderFound(DetectorHeaders(args[1])[i], text)

\* C24: when no header is found and any line of the text, the first line
\* included, matches one of the style's full-citation patterns, the section is
\* not empty: it starts after the nearest blank line before the match or at a
\* header line and runs to the end of the text; it is empty only when no line
\* matches.
C24_FallbackSection ==
    (op = "_find_bibliography_section" /\ NoHeaderOfStyle) => FallbackSection(1)

\* what holds: the same with the first line of the text left out of the scan
FallbackSection_AfterFirstLine ==
    (op = "_find_bibliography_section" /\ NoHeaderOfStyle) => FallbackSection(2)

\* ^[A-Z][A-Za-zÀ-ÿ\-]*, : a capitalized word and a comma at the start
CapitalizedSurnameStart == {"Smith, J. A. (2020). Title. Publisher.",
                            "Smith, John. Title. City: Publisher, 2020."}

\* ^\d+\. : a number and a period at the start
NumberDotStart == {"1. Smith, J. Title, 2020."}

Accepted(citation_type) ==
    op = "_is_valid_citation" /\ args[3] = citation_type /\ result = TRUE

\* C25: a bibliography candidate is accepted only if its length is 20 to
\* 1000, it ends in '.', '!' or '?', it starts with a capitalized word and a
\* comma for APA, MLA, CHICAGO and HARVARD, and it has '[n]' or 'n.' at its
\* very start for IEEE and VANCOUVER.
C25_BibliographyCandidate ==
    Accepted("bibliography") =>
        LET citation == args[1]
            style == args[2]
        IN  /\ StrLen(citation) >= 20 /\ StrLen(citation) <= 1000
            /\ citation[Len(citation)] \in EndsPunct
            /\ style \in {"APA", "MLA", "CHICAGO", "HARVARD"} =>
                    citation[1] \in CapitalizedSurnameStart
            /\ style \in {"IEEE", "VANCOUVER"} =>
                    citation[1] \in BracketStart \cup NumberDotStart

\* what holds: the length, the end, a word of letters in either case and a
\* comma at the start, and for IEEE and VANCOUVER '[n]' at the start or 'n.'
\* anywhere
BibliographyCandidate_AsCoded ==
    Accepted("bibliography") =>
        LET citation == args[1]
            style == args[2]
        IN  /\ StrLen(citation) >= 20 /\ StrLen(citation) <= 1000
            /\ citation[Len(citation)] \in EndsPunct
            /\ style \in {"APA", "MLA", "CHICAGO", "HARVARD"} => citation[1] \in SurnameStart
            /\ style \in {"IEEE", "VANCOUVER"} =>
                    \/ citation[1] \in BracketStart
                    \/ \E i \in 1..Len(citation) : citation[i] \in HasNumberDot

\* C26: an in-text candidate is accepted only if its length is 3 to 100 and
\* it has the marker of its style: a 4-digit year for APA, HARVARD, CHICAGO and
\* CSE, at least one digit for IEEE and VANCOUVER.
C26_InTextCandidate ==
    Accepted("in_text") =>
        LET citation == args[1]
            style == args[2]
        IN  /\ StrLen(citation) >= 3 /\ StrLen(citation) <= 100
            /\ style \in {"APA", "HARVARD", "CHICAGO", "CSE"} =>
                    \E i \in 1..Len(citation) : citation[i] \in HasYear
            /\ style \in {"IEEE", "VANCOUVER"} =>
                    \E i \in 1..Len(citation) : citation[i] \in HasDigit

\* what holds: the same with the year asked of APA and CHICAGO only
InTextCandidate_AsCoded ==
    Accepted("in_text") =>
        LET citation == args[1]
            style == args[2]
        IN  /\ StrLen(citation) >= 3 /\ StrLen(citation) <= 100
            /\ style \in {"APA", "CHICAGO"} =>
                    \E i \in 1..Len(citation) : citation[i] \in HasYear
            /\ style \in {"IEEE", "VANCOUVER"} =>
                    \E i \in 1..Len(citation) : citation[i] \in HasDigit

\* the region the detector groups line by line: the section of the primary
\* style when no full-citation pattern matches in it
GroupedRegion ==
    LET primary_style == identify_primary_style(in_text_patterns, full_citation_patterns,
                                                text).style
    IN  IF primary_style # NoCitations /\ DictHas(full_citation_patterns, primary_style)
        THEN LET section == find_bibliography_section(full_citation_patterns, text,
                                                      primary_style)
             IN IF AllMatches(full_citation_patterns.val[primary_style], section) = << >>
                THEN section ELSE <<"">>
        ELSE <<"">>

NonBlankLines(lines) ==
    LET nonblank(l) == ~IsBlankLine(l) IN SelectSeq(lines, nonblank)

\* the lines joined into the entries, entry after entry
JoinedLines(entries) ==
    LET notspace(piece) == piece # " " IN SelectSeq(Flatten(entries), notspace)

\* C27: the line grouping puts every non-blank line of the region in exactly
\* one entry, in the original order; no entry is empty and no entry begins
\* with a space.
C27_LineGrouping ==
    (op = "extract_citations" /\ GroupedRegion # <<"">>) =>
        /\ JoinedLines(result.bibliograficas) = NonBlankLines(GroupedRegion)
        /\ \A i \in 1..Len(result.bibliograficas) :
                /\ result.bibliograficas[i] # << >>
                /\ Head(result.bibliograficas[i]) # " "

\* what holds: no entry is empty, every non-blank line of the region is in an
\* entry and the entries are made of lines of the region
LineGrouping_Covers ==
    (op = "extract_citations" /\ GroupedRegion # <<"">>) =>
        /\ Range(JoinedLines(result.bibliograficas)) = Range(NonBlankLines(GroupedRegion))
        /\ \A i \in 1..Len(result.bibliograficas) : result.bibliograficas[i] # << >>

NumericStyles == {"IEEE", "VANCOUVER"}

Reported(rule_id) == \E i \in 1..Len(result) : result[i].rule_id = rule_id

\* C28: when the style is IEEE or VANCOUVER no author/year key is extracted
\* from the in-text citations and the cross-reference check reports nothing
\* unmatched in either direction, whatever the bibliography contains.
C28_NumericStylesUnmatched ==
    (op = "validate_citation_consistency" /\ args[3] \in NumericStyles) =>
        /\ validator_citation_keys(args[1], args[3]) = << >>
        /\ ~Reported("missing_bibliography")
        /\ ~Reported("uncited_references")

\* what holds: no key is extracted and no citation is reported without a
\* reference
NumericStyles_NoMissingBibliography ==
    (op = "validate_citation_consistency" /\ args[3] \in NumericStyles) =>
        /\ validator_citation_keys(args[1], args[3]) = << >>
        /\ ~Reported("missing_bibliography")

\* and every entry the style's expression finds a key in is reported as uncited
NumericStyles_EveryKeyUncited ==
    (op = "validate_citation_consistency" /\ args[3] \in NumericStyles) =>
        (Reported("uncited_references") <=> extract_bibliography_keys(args[2], args[3]) # << >>)

\* a raw table and its compiled table: the same styles in the same order, and
\* for every style the compiled list is the raw list compiled item by item
InStep(raw, compiled) ==
    /\ raw.keys = compiled.keys
    /\ \A style \in Range(raw.keys) :
            /\ Len(compiled.val[style]) = Len(raw.val[style])
            /\ \A i \in 1..Len(raw.val[style]) :
                    compiled.val[style][i] = compile(raw.val[style][i])

\* C29: after construction and after any calls of add_custom_pattern, in every
\* category the raw and the compiled table have the same styles, lists of the
\* same length, and the i-th compiled pattern is the i-th source compiled.
C29_CatalogInStep ==
    /\ InStep(self_patterns.in_text_patterns, self_patterns.compiled_in_text)
    /\ InStep(self_patterns.bibliography_patterns, self_patterns.compiled_bibliography)
    /\ InStep(self_patterns.bibliography_headers, self_patterns.compiled_headers)

\* a header added for a style no table had, after an earlier call
C29_Witness ==
    /\ op = "add_custom_pattern"
    /\ Gave(result, TRUE)
    /\ args = <<"DOI", "headers", "custom:hello">>
    /\ before.patterns # CitationPatterns
    /\ self_patterns.compiled_headers.val["DOI"] = <<compile("custom:hello")>>
    /\ self_patterns # before.patterns

\* the counts before the Chicago sub-styles are merged
CountedStyles(txt) ==
    CountInText(extractor_in_text_patterns.keys, txt,
                CountHeaders(bibliography_headers.keys, txt, EmptyDict))

\* 5 for every header of the style found in the text
HeaderWeight(style, txt) ==
    5 * Cardinality({i \in 1..Len(bibliography_headers.val[style]) :
                        HeaderHits(<<bibliography_headers.val[style][i]>>, txt) # {}})

\* the matches of the patterns of an in-text style
InTextMatches(style, txt) ==
    SumSeq([i \in 1..Len(extractor_in_text_patterns.val[style]) |->
                Len(FindAll(extractor_in_text_patterns.val[style][i], txt))])

\* the score of CHICAGO with its headers counted
ChicagoScoreWithHeaders(txt) ==
    HeaderWeight("CHICAGO", txt) + InTextMatches("CHICAGO_AUTHOR_DATE", txt)
        + InTextMatches("CHICAGO_NOTES", txt)

\* the style chosen when CHICAGO has that score
ChoiceWithChicagoHeaders(txt) ==
    LET style_counts == DictSet(style_counts_of(txt), "CHICAGO", ChicagoScoreWithHeaders(txt))
        max_style == PyMax(style_counts)
    IN IF style_counts.val[max_style] > 0 THEN max_style ELSE "APA"

\* C30: every matching header adds 5 to its style and counts in the final
\* choice for every style, CHICAGO included: the score of CHICAGO the maximum
\* is taken over is 5 x (matching CHICAGO headers) + CHICAGO_AUTHOR_DATE
\* matches + CHICAGO_NOTES matches.
C30_ChicagoHeadersCount ==
    op = "_detect_citation_style" =>
        /\ style_counts_of(text).val["CHICAGO"] = ChicagoScoreWithHeaders(text)
        /\ result = ChoiceWithChicagoHeaders(text)

\* what holds: the headers count for every other style, and the score of
\* CHICAGO is the matches of its two sub-styles
HeadersCount_NotChicago ==
    op = "_detect_citation_style" =>
        /\ \A style \in Range(bibliography_headers.keys) \ {"CHICAGO"} :
                style_counts_of(text).val[style]
                    = HeaderWeight(style, text) + InTextMatches(style, text)
        /\ style_counts_of(text).val["CHICAGO"]
                = InTextMatches("CHICAGO_AUTHOR_DATE", text)
                    + InTextMatches("CHICAGO_NOTES", text)

=============================================================================
